---- MODULE Spec2Model ----
(***************************************************************************)
(* A model of the my-shop data layer (myshop/models.py, the schema of      *)
(* myshop/migrations/0001_initial.py and the database settings of          *)
(* myshop/settings.py).                                                    *)
(*                                                                         *)
(* The database is a set of rows per table.  A row is a record whose       *)
(* fields are the columns the modelled operations read or write.  Money    *)
(* amounts are counted in thousandths (MoneyField decimal_places=3).       *)
(* Every operation records what it returned or raised in ret.              *)
(***************************************************************************)
EXTENDS Integers, FiniteSets, Sequences, TLC

VARIABLES
    products,       \* rows of myshop_product: [id, kind]
    commodities,    \* rows of myshop_commodity: [product_ptr, product_code, unit_price, quantity]
    smartcards,     \* rows of myshop_smartcard: [product_ptr, product_code, unit_price, quantity]
    variants,       \* rows of myshop_smartphonevariant: [id, product, product_code, unit_price, quantity]
    nextProductId,  \* AutoField sequence of myshop_product
    nextVariantId,  \* AutoField sequence of myshop_smartphonevariant
    customers,      \* rows of myshop_customer: [user, salutation]; user is the primary key
    carts,          \* rows of myshop_cart: [id, customer, billing_address, shipping_address]
    cartItems,      \* rows of myshop_cartitem: [id, cart, product, product_code, quantity]
    orders,         \* rows of myshop_order: [id, customer, status]
    nextCartId,     \* AutoField sequence of myshop_cart
    nextCartItemId, \* AutoField sequence of myshop_cartitem
    nextOrderId,    \* AutoField sequence of myshop_order
    priceAtAdd,     \* history: cart item id -> unit price its variant had when it was added
    orderItems,     \* rows of myshop_orderitem: [id, order, product, product_name, product_code, unit_price]
    payments,       \* rows of myshop_orderpayment: [id, order]
    deliveries,     \* rows of myshop_delivery: [id, order]
    deliveryItems,  \* rows of myshop_deliveryitem: [id, delivery, item]
    nextOrderItemId,    \* AutoField sequence of myshop_orderitem
    nextPaymentId,      \* AutoField sequence of myshop_orderpayment
    nextDeliveryId,     \* AutoField sequence of myshop_delivery
    nextDeliveryItemId, \* AutoField sequence of myshop_deliveryitem
    billingAddresses,   \* rows of myshop_billingaddress: [id, customer]
    shippingAddresses,  \* rows of myshop_shippingaddress: [id, customer]
    nextBillingAddressId,   \* AutoField sequence of myshop_billingaddress
    nextShippingAddressId,  \* AutoField sequence of myshop_shippingaddress
    productTranslations,          \* rows of myshop_producttranslation: [id, language_code, master]
    smartCardTranslations,        \* rows of myshop_smartcard_translation: [id, language_code, master]
    smartPhoneModelTranslations,  \* rows of myshop_smartphonemodel_translation: [id, language_code, master]
    nextProductTranslationId,         \* AutoField sequence of myshop_producttranslation
    nextSmartCardTranslationId,       \* AutoField sequence of myshop_smartcard_translation
    nextSmartPhoneModelTranslationId, \* AutoField sequence of myshop_smartphonemodel_translation
    environ,        \* os.environ of the process: variable name -> its value, or PyNone when unset
    settings,       \* the settings module once it is loaded
    obj,            \* the SmartPhoneModel instance a request holds in memory: [pk, hasPrice, price]
    req,            \* the request that is handled step by step: [pc, todo, done, snapshot, work],
                    \* or the get_price call between its queries: [pc, pk, atExists, atFirst, currency]
    ret             \* what the last operation returned or raised

catalogVars == <<products, commodities, smartcards, variants, nextProductId, nextVariantId>>
orderVars == <<orderItems, payments, deliveries, deliveryItems, nextOrderItemId,
               nextPaymentId, nextDeliveryId, nextDeliveryItemId>>
addressVars == <<billingAddresses, shippingAddresses, nextBillingAddressId,
                 nextShippingAddressId>>
translationVars == <<productTranslations, smartCardTranslations, smartPhoneModelTranslations,
                     nextProductTranslationId, nextSmartCardTranslationId,
                     nextSmartPhoneModelTranslationId>>
settingsVars == <<environ, settings>>
shopVars == <<customers, carts, cartItems, orders, nextCartId, nextCartItemId, nextOrderId,
              priceAtAdd, orderVars, addressVars, translationVars, settingsVars>>
vars == <<products, commodities, smartcards, variants, nextProductId, nextVariantId,
          customers, carts, cartItems, orders, nextCartId, nextCartItemId, nextOrderId,
          priceAtAdd, orderItems, payments, deliveries, deliveryItems, nextOrderItemId,
          nextPaymentId, nextDeliveryId, nextDeliveryItemId, billingAddresses,
          shippingAddresses, nextBillingAddressId, nextShippingAddressId,
          productTranslations, smartCardTranslations, smartPhoneModelTranslations,
          nextProductTranslationId, nextSmartCardTranslationId,
          nextSmartPhoneModelTranslationId, environ, settings, obj, req, ret>>

(***************************************************************************)
(* Bounds of the model.                                                    *)
(***************************************************************************)
MaxProducts == 2
MaxVariants == 2
MaxPrice == 2
MaxCodes == 2
MaxQuantity == 1
MaxCustomers == 2
MaxOrders == 2
MaxCartItems == 1
MaxOrderItems == 1
MaxDependants == 1
MaxTranslations == 2
MaxThousandths == 15

ProductIds == 1..MaxProducts
VariantIds == 1..MaxVariants
\* unit_price is a MoneyField of 3 decimal places, OrderItem._unit_price a
\* DecimalField of 2: the thousandths in a hundredth
Cent == 10

\* the prices of the catalog: whole cents, in thousandths
Amounts == {Cent * a : a \in 1..MaxPrice}

\* every price of 3 decimal places up to a bound, in thousandths
FineAmounts == 1..MaxThousandths
Codes == 1..MaxCodes
Quantities == 0..MaxQuantity
UserIds == 1..MaxCustomers

\* product_code columns are strings; None is the value of a nullable column
\* and of kwargs.get('product_code') when the argument is missing.
None == 0
\* the amount of a Money built from no value
NaN == -1

SHOP_DEFAULT_CURRENCY == "EUR"
Currencies == {"EUR", "USD"}

\* MoneyMaker(currency)(value): a Money of that currency; no value gives NaN.
MoneyMaker(currency, value) ==
    [amount |-> IF value = None THEN NaN ELSE value, currency |-> currency]

\* Money(): the empty Money of the default currency.
Money == [amount |-> NaN, currency |-> SHOP_DEFAULT_CURRENCY]

MoneyValues == {MoneyMaker(c, a) : c \in Currencies, a \in Amounts}

UnitPrice == MoneyMaker(SHOP_DEFAULT_CURRENCY, Cent)

\* Decimal(money): the amount alone, the currency is dropped.
Decimal(money) == money.amount

\* DecimalField(decimal_places=2) on save: the value is quantized to the
\* hundredth, a half going to the even neighbour
Quantize(a) ==
    LET q == a \div Cent
        r == a % Cent
    IN  Cent * (IF 2 * r > Cent \/ (2 * r = Cent /\ q % 2 = 1) THEN q + 1 ELSE q)

(***************************************************************************)
(* Queries.                                                                *)
(***************************************************************************)
\* self.variants: the related manager of SmartPhoneVariant.product
VariantsOf(m) == {v \in variants : v.product = m}

\* QuerySet.exists()
Exists(qs) == qs # {}

\* QuerySet.first(): SmartPhoneVariant declares no ordering, so by primary key
First(qs) == CHOOSE v \in qs : \A w \in qs : v.id <= w.id

AggregateMax(qs) ==
    IF qs = {} THEN None
    ELSE CHOOSE a \in {v.unit_price.amount : v \in qs} :
            \A w \in qs : w.unit_price.amount <= a

\* QuerySet.aggregate(Min('unit_price'))['unit_price__min']
AggregateMin(qs) ==
    IF qs = {} THEN None
    ELSE CHOOSE a \in {v.unit_price.amount : v \in qs} :
            \A w \in qs : a <= w.unit_price.amount

CurrencyOfCheapest(qs) ==
    (CHOOSE v \in qs : \A w \in qs : v.unit_price.amount <= w.unit_price.amount).unit_price.currency

get_price_currency_of_min(o) ==
    IF o.hasPrice THEN o.price
    ELSE IF Exists(VariantsOf(o.pk))
    THEN MoneyMaker(CurrencyOfCheapest(VariantsOf(o.pk)), AggregateMin(VariantsOf(o.pk)))
    ELSE Money

\* the currency of a value that has none
NoCurrency == "none"

get_price_without_currency(o) ==
    IF o.hasPrice THEN o.price
    ELSE IF Exists(VariantsOf(o.pk))
    THEN MoneyMaker(First(VariantsOf(o.pk)).unit_price.currency, AggregateMin(VariantsOf(o.pk)))
    ELSE [amount |-> NaN, currency |-> NoCurrency]

get_price_uncached(o) ==
    IF Exists(VariantsOf(o.pk))
    THEN MoneyMaker(First(VariantsOf(o.pk)).unit_price.currency, AggregateMin(VariantsOf(o.pk)))
    ELSE Money

get_price_max(o) ==
    IF o.hasPrice THEN o.price
    ELSE IF Exists(VariantsOf(o.pk))
    THEN MoneyMaker(First(VariantsOf(o.pk)).unit_price.currency, AggregateMax(VariantsOf(o.pk)))
    ELSE Money

\* SmartPhoneModel.get_price(request) on the instance o: the cached _price when
\* the instance has one, else computed from the variants (and then cached)
get_price(o) ==
    IF o.hasPrice THEN o.price
    ELSE IF Exists(VariantsOf(o.pk))
    THEN MoneyMaker(First(VariantsOf(o.pk)).unit_price.currency, AggregateMin(VariantsOf(o.pk)))
    ELSE Money

NoVariant == [id |-> 0, product |-> 0, product_code |-> None, unit_price |-> Money, quantity |-> 0]

\* QuerySet.get(product_code=c): the one matching row, or DoesNotExist, or
\* MultipleObjectsReturned
variants_get(qs, c) ==
    LET found == {v \in qs : v.product_code = c}
    IN  IF found = {} THEN [exc |-> "SmartPhoneVariant.DoesNotExist", row |-> NoVariant]
        ELSE IF Cardinality(found) > 1
        THEN [exc |-> "SmartPhoneVariant.MultipleObjectsReturned", row |-> NoVariant]
        ELSE [exc |-> "none", row |-> CHOOSE v \in found : TRUE]

get_product_variant_any_model(m, c) ==
    LET r == variants_get(variants, c)
    IN  IF r.exc = "SmartPhoneVariant.DoesNotExist"
        THEN [exc |-> "SmartPhoneModel.DoesNotExist", row |-> NoVariant]
        ELSE r

get_product_variant_untranslated(m, c) == variants_get(VariantsOf(m), c)

\* SmartPhoneModel.get_product_variant(product_code=c) on model m; c is None
\* when the keyword argument is missing
get_product_variant(m, c) ==
    LET r == variants_get(VariantsOf(m), c)
    IN  IF r.exc = "SmartPhoneVariant.DoesNotExist"
        THEN [exc |-> "SmartPhoneModel.DoesNotExist", row |-> NoVariant]
        ELSE r

\* the exceptions that derive from django.core.exceptions.ObjectDoesNotExist
ObjectDoesNotExist ==
    {"SmartPhoneModel.DoesNotExist", "SmartPhoneVariant.DoesNotExist", "CartItem.DoesNotExist"}

NoItem == [product |-> 0, product_code |-> None, quantity |-> 0, unit_price |-> NaN]

\* the order item after super().populate_from_cart_item(cart_item, request) and
\* the assignment of _unit_price
PopulatedItem(ci, price) ==
    [product |-> ci.product, product_code |-> ci.product_code,
     quantity |-> ci.quantity, unit_price |-> price]

populate_catches_key_error_only(ci) ==
    LET r == get_product_variant(ci.product, ci.product_code)
    IN  IF r.exc = "KeyError" THEN [exc |-> "CartItem.DoesNotExist", item |-> NoItem]
        ELSE IF r.exc # "none" THEN [exc |-> r.exc, item |-> NoItem]
        ELSE [exc |-> "none", item |-> PopulatedItem(ci, Decimal(r.row.unit_price))]

populate_with_starting_price(ci) ==
    LET r == get_product_variant(ci.product, ci.product_code)
    IN  IF r.exc \in {"KeyError"} \cup ObjectDoesNotExist
        THEN [exc |-> "CartItem.DoesNotExist", item |-> NoItem]
        ELSE IF r.exc # "none" THEN [exc |-> r.exc, item |-> NoItem]
        ELSE [exc |-> "none",
              item |-> PopulatedItem(ci, Decimal(get_price([pk |-> ci.product, hasPrice |-> FALSE,
                                                           price |-> Money])))]

populate_with_cart_price(ci) ==
    LET r == get_product_variant(ci.product, ci.product_code)
    IN  IF r.exc \in {"KeyError"} \cup ObjectDoesNotExist
        THEN [exc |-> "CartItem.DoesNotExist", item |-> NoItem]
        ELSE IF r.exc # "none" THEN [exc |-> r.exc, item |-> NoItem]
        ELSE [exc |-> "none", item |-> PopulatedItem(ci, priceAtAdd[ci.id])]

populate_without_try(ci) ==
    LET r == get_product_variant(ci.product, ci.product_code)
    IN  IF r.exc # "none" THEN [exc |-> r.exc, item |-> NoItem]
        ELSE [exc |-> "none", item |-> PopulatedItem(ci, Decimal(r.row.unit_price))]

\* OrderItem.populate_from_cart_item(cart_item, request): the exception it
\* raises ("none" when it returns) and the populated order item
populate_from_cart_item(ci) ==
    LET r == get_product_variant(ci.product, ci.product_code)
    IN  IF r.exc \in {"KeyError"} \cup ObjectDoesNotExist
        THEN [exc |-> "CartItem.DoesNotExist", item |-> NoItem]
        ELSE IF r.exc # "none" THEN [exc |-> r.exc, item |-> NoItem]
        ELSE [exc |-> "none", item |-> PopulatedItem(ci, Decimal(r.row.unit_price))]

IsSmartPhoneModel(m) == [id |-> m, kind |-> "SmartPhoneModel"] \in products

VariantCodeFreeWithinModel(c, id) ==
    \A v \in variants, w \in variants :
        (w.id = id /\ v.id # id /\ v.product = w.product) => v.product_code # c

\* unique=True on SmartPhoneVariant.product_code: no other row holds the code
VariantCodeFree(c, id) == \A v \in variants : v.id # id => v.product_code # c

\* unique=True on Commodity.product_code
CommodityCodeFree(c, pk) == \A r \in commodities : r.product_ptr # pk => r.product_code # c

\* unique=True on SmartCard.product_code
SmartCardCodeFree(c, pk) == \A r \in smartcards : r.product_ptr # pk => r.product_code # c

QuantityUnchecked(q) == TRUE

\* PositiveIntegerField quantity: the column carries the check quantity >= 0,
\* the database refuses a row that fails it
QuantityCheck(q) == q >= 0

ATOMIC_REQUESTS_enabled == TRUE

\* DATABASES['default'] sets no ATOMIC_REQUESTS, so Django's default applies:
\* a request is not wrapped in a transaction, every query is committed alone
ATOMIC_REQUESTS == FALSE

deduct_from_stock_any_model(rows, m, q, c) ==
    LET found == {v \in rows : v.product_code = c}
    IN  IF found = {} THEN [exc |-> "SmartPhoneModel.DoesNotExist", rows |-> rows]
        ELSE LET v == CHOOSE x \in found : TRUE
             IN  IF ~QuantityCheck(v.quantity - q)
                 THEN [exc |-> "IntegrityError", rows |-> rows]
                 ELSE [exc |-> "none",
                       rows |-> (rows \ {v}) \cup {[v EXCEPT !.quantity = v.quantity - q]}]

\* SmartPhoneModel.deduct_from_stock(quantity, product_code=c) on the rows
\* given: the exception raised and the rows afterwards.  The quantity column
\* is a PositiveIntegerField, the database refuses a negative value.
deduct_from_stock(rows, m, q, c) ==
    LET found == {v \in rows : v.product = m /\ v.product_code = c}
    IN  IF found = {} THEN [exc |-> "SmartPhoneModel.DoesNotExist", rows |-> rows]
        ELSE LET v == CHOOSE x \in found : TRUE
             IN  IF ~QuantityCheck(v.quantity - q)
                 THEN [exc |-> "IntegrityError", rows |-> rows]
                 ELSE [exc |-> "none",
                       rows |-> (rows \ {v}) \cup {[v EXCEPT !.quantity = v.quantity - q]}]

\* variant.get_availability(request): what the variant answers about itself,
\* its stock
variant_get_availability(v) == [quantity |-> v.quantity]

NoAvailability == [quantity |-> None]

get_availability_of_first(m, c) ==
    IF VariantsOf(m) = {}
    THEN [exc |-> "SmartPhoneModel.DoesNotExist", value |-> NoAvailability]
    ELSE [exc |-> "none", value |-> variant_get_availability(First(VariantsOf(m)))]

\* SmartPhoneModel.get_availability(request, product_code=c): the variant is
\* looked up with get_product_variant, whose exception passes through, and
\* the variant's answer is returned
get_availability(m, c) ==
    LET r == get_product_variant(m, c)
    IN  IF r.exc # "none" THEN [exc |-> r.exc, value |-> NoAvailability]
        ELSE [exc |-> "none", value |-> variant_get_availability(r.row)]

\* Python values of the settings module: a str, or None
Str(s) == [type |-> "str", value |-> s]
PyNone == [type |-> "NoneType", value |-> ""]

\* the environment variables the modelled settings read
EnvironmentVariables == {"REDIS_HOST", "DJANGO_EMAIL_USE_TLS"}

\* os.getenv(name, default) in the environment env: the value of the
\* variable when it is set, also when it is set to the empty string
os_getenv(env, name, default) == IF env[name] = PyNone THEN default ELSE env[name]

boolWhenSet(x) == x # PyNone

boolAsFlag(x) == x.type = "str" /\ x.value \notin {"", "0", "false"}

\* bool(x) and the test of `if x:` for a str or None: false for None and for
\* the empty string, true for every other string
bool(x) == x.type = "str" /\ x.value # ""

\* the settings module before it is executed
NotLoaded == [loaded |-> FALSE]

\* the settings module executed in the environment env: the session engine,
\* the caches and the mail settings it ends with
Settings(env) ==
    LET REDIS_HOST == os_getenv(env, "REDIS_HOST", PyNone)
    IN  [loaded |-> TRUE,
         REDIS_HOST |-> REDIS_HOST,
         SESSION_ENGINE |-> IF bool(REDIS_HOST) THEN "redis_sessions.session"
                            ELSE "django.contrib.sessions.backends.cached_db",
         SESSION_REDIS |-> IF bool(REDIS_HOST) THEN REDIS_HOST ELSE PyNone,
         CACHES |-> [default |->
                        IF bool(REDIS_HOST)
                        THEN [BACKEND |-> "redis_cache.RedisCache",
                              LOCATION |-> "redis://" \o REDIS_HOST.value \o ":6379/1"]
                        ELSE [BACKEND |-> "django.core.cache.backends.locmem.LocMemCache",
                              LOCATION |-> ""],
                     select2 |-> [BACKEND |-> "django.core.cache.backends.dummy.DummyCache"]],
         EMAIL_USE_TLS |-> bool(os_getenv(env, "DJANGO_EMAIL_USE_TLS", Str("1")))]

IdleRequest == [pc |-> "idle", todo |-> <<>>, done |-> <<>>, snapshot |-> {}, work |-> {}]

\* ret after an operation that returned nothing
Done == [op |-> "done"]

NoObj == [pk |-> 0, hasPrice |-> FALSE, price |-> Money]

Init ==
    /\ products = {}
    /\ commodities = {}
    /\ smartcards = {}
    /\ variants = {}
    /\ nextProductId = 1
    /\ nextVariantId = 1
    /\ customers = {}
    /\ carts = {}
    /\ cartItems = {}
    /\ orders = {}
    /\ nextCartId = 1
    /\ nextCartItemId = 1
    /\ nextOrderId = 1
    /\ priceAtAdd = <<>>
    /\ orderItems = {}
    /\ payments = {}
    /\ deliveries = {}
    /\ deliveryItems = {}
    /\ nextOrderItemId = 1
    /\ nextPaymentId = 1
    /\ nextDeliveryId = 1
    /\ nextDeliveryItemId = 1
    /\ billingAddresses = {}
    /\ shippingAddresses = {}
    /\ nextBillingAddressId = 1
    /\ nextShippingAddressId = 1
    /\ productTranslations = {}
    /\ smartCardTranslations = {}
    /\ smartPhoneModelTranslations = {}
    /\ nextProductTranslationId = 1
    /\ nextSmartCardTranslationId = 1
    /\ nextSmartPhoneModelTranslationId = 1
    /\ environ = [name \in EnvironmentVariables |-> PyNone]
    /\ settings = NotLoaded
    /\ obj = NoObj
    /\ req = IdleRequest
    /\ ret = [op |-> "init"]

(***************************************************************************)
(* Catalog operations.                                                     *)
(***************************************************************************)
\* SmartPhoneModel.objects.create(...): a Product row of kind SmartPhoneModel
CreateSmartPhoneModel ==
    /\ nextProductId <= MaxProducts
    /\ products' = products \cup {[id |-> nextProductId, kind |-> "SmartPhoneModel"]}
    /\ nextProductId' = nextProductId + 1
    /\ ret' = Done
    /\ UNCHANGED <<commodities, smartcards, variants, nextVariantId, shopVars, obj, req>>

\* SmartPhoneVariant.objects.create(product, product_code, unit_price, quantity)
CreateVariant(m, c, price, q) ==
    /\ nextVariantId <= MaxVariants
    /\ IsSmartPhoneModel(m)
    /\ IF VariantCodeFree(c, 0) /\ QuantityCheck(q)
       THEN /\ variants' = variants \cup
                   {[id |-> nextVariantId, product |-> m, product_code |-> c,
                     unit_price |-> price, quantity |-> q]}
            /\ nextVariantId' = nextVariantId + 1
            /\ ret' = Done
       ELSE /\ UNCHANGED <<variants, nextVariantId>>
            /\ ret' = [op |-> "create_variant", exc |-> "IntegrityError"]
    /\ UNCHANGED <<products, commodities, smartcards, nextProductId, shopVars, obj, req>>

\* variant.unit_price = price; variant.save()
UpdateVariantPriceAndItems(id, price) ==
    /\ \E v \in variants :
        /\ v.id = id
        /\ v.unit_price # price
        /\ variants' = (variants \ {v}) \cup {[v EXCEPT !.unit_price = price]}
        /\ orderItems' = {IF i.product_code = v.product_code
                          THEN [i EXCEPT !.unit_price = Decimal(price)] ELSE i :
                          i \in orderItems}
    /\ ret' = Done
    /\ UNCHANGED <<products, commodities, smartcards, nextProductId, nextVariantId,
                   customers, carts, cartItems, orders, nextCartId, nextCartItemId,
                   nextOrderId, priceAtAdd, payments, deliveries, deliveryItems,
                   nextOrderItemId, nextPaymentId, nextDeliveryId, nextDeliveryItemId,
                   addressVars, translationVars, settingsVars, obj, req>>

UpdateVariantPrice(id, price) ==
    /\ \E v \in variants :
        /\ v.id = id
        /\ v.unit_price # price
        /\ variants' = (variants \ {v}) \cup {[v EXCEPT !.unit_price = price]}
    /\ ret' = Done
    /\ UNCHANGED <<products, commodities, smartcards, nextProductId, nextVariantId, shopVars, obj, req>>

\* variant.delete()
DeleteVariant(id) ==
    /\ \E v \in variants :
        /\ v.id = id
        /\ variants' = variants \ {v}
    /\ ret' = Done
    /\ UNCHANGED <<products, commodities, smartcards, nextProductId, nextVariantId, shopVars, obj, req>>

\* SmartPhoneModel.objects.get(pk=m): a fresh instance, no _price attribute yet
LoadModel(m) ==
    /\ IsSmartPhoneModel(m)
    /\ obj' = [pk |-> m, hasPrice |-> FALSE, price |-> Money]
    /\ ret' = Done
    /\ UNCHANGED <<catalogVars, shopVars, req>>

\* a request calls get_price on the instance it holds
CallGetPrice ==
    /\ obj.pk # 0
    /\ obj' = [obj EXCEPT !.hasPrice = TRUE, !.price = get_price(obj)]
    /\ ret' = [op |-> "get_price", pk |-> obj.pk, first |-> ~obj.hasPrice,
               value |-> get_price(obj)]
    /\ UNCHANGED <<catalogVars, shopVars, req>>

\* a request calls get_product_variant on model m
CallGetProductVariant(m, c) ==
    /\ IsSmartPhoneModel(m)
    /\ ret' = [op |-> "get_product_variant", pk |-> m, code |-> c,
               exc |-> get_product_variant(m, c).exc,
               row |-> get_product_variant(m, c).row]
    /\ UNCHANGED <<catalogVars, shopVars, obj, req>>

NextPrice ==
    \/ CreateSmartPhoneModel
    \/ \E m \in ProductIds, price \in MoneyValues :
          CreateVariant(m, nextVariantId, price, 0)
    \/ \E id \in VariantIds, price \in MoneyValues : UpdateVariantPrice(id, price)
    \/ \E id \in VariantIds : DeleteVariant(id)
    \/ \E m \in ProductIds : LoadModel(m)
    \/ CallGetPrice

SpecPrice == Init /\ [][NextPrice]_vars

(***************************************************************************)
(* Customers, carts and cart items.                                        *)
(***************************************************************************)
\* the customer of user u exists
IsCustomer(u) == \E c \in customers : c.user = u

CustomerUserUnchecked(u) == TRUE

\* primary_key=True on Customer.user: no row holds the user yet
CustomerUserFree(u) == \A c \in customers : c.user # u

\* Customer.objects.create(user=u, salutation=s); the user is the primary key
CreateCustomer(u, s) ==
    /\ IF CustomerUserFree(u)
       THEN /\ customers' = customers \cup {[user |-> u, salutation |-> s]}
            /\ ret' = Done
       ELSE /\ UNCHANGED customers
            /\ ret' = [op |-> "create_customer", exc |-> "IntegrityError"]
    /\ UNCHANGED <<catalogVars, carts, cartItems, orders, nextCartId, nextCartItemId,
                   nextOrderId, priceAtAdd, orderVars, addressVars, translationVars, settingsVars, obj, req>>

CartCustomerUnchecked(u) == TRUE

\* OneToOneField Cart.customer: no cart refers to the customer yet
CartCustomerFree(u) == \A c \in carts : c.customer # u

\* Cart.objects.create(customer=u); the address columns default to None
CreateCart(u) ==
    /\ nextCartId <= MaxCustomers
    /\ IsCustomer(u)
    /\ IF CartCustomerFree(u)
       THEN /\ carts' = carts \cup {[id |-> nextCartId, customer |-> u,
                                     billing_address |-> None, shipping_address |-> None]}
            /\ nextCartId' = nextCartId + 1
            /\ ret' = Done
       ELSE /\ UNCHANGED <<carts, nextCartId>>
            /\ ret' = [op |-> "create_cart", pk |-> u, exc |-> "IntegrityError"]
    /\ UNCHANGED <<catalogVars, customers, cartItems, orders, nextCartItemId,
                   nextOrderId, priceAtAdd, orderVars, addressVars, translationVars, settingsVars, obj, req>>

\* CartItem.objects.create(cart, product, product_code, quantity); the history
\* variable notes the unit price the named variant has at this moment
AddToCart(cart, product, c, q) ==
    /\ nextCartItemId <= MaxCartItems
    /\ \E k \in carts : k.id = cart
    /\ \E p \in products : p.id = product
    /\ cartItems' = cartItems \cup
           {[id |-> nextCartItemId, cart |-> cart, product |-> product,
             product_code |-> c, quantity |-> q]}
    /\ nextCartItemId' = nextCartItemId + 1
    /\ priceAtAdd' = Append(priceAtAdd, Decimal(get_product_variant(product, c).row.unit_price))
    /\ ret' = Done
    /\ UNCHANGED <<catalogVars, customers, carts, orders, nextCartId, nextOrderId,
                   orderVars, addressVars, translationVars, settingsVars, obj, req>>

\* order_item.populate_from_cart_item(cart_item, request) for a cart item whose
\* product is a SmartPhoneModel
CallPopulateFromCartItem(id) ==
    /\ \E ci \in cartItems :
        /\ ci.id = id
        /\ IsSmartPhoneModel(ci.product)
        /\ ret' = [op |-> "populate_from_cart_item", cart_item |-> ci,
                   exc |-> populate_from_cart_item(ci).exc,
                   item |-> populate_from_cart_item(ci).item]
    /\ UNCHANGED <<catalogVars, shopVars, obj, req>>

CartItemIds == 1..MaxCartItems

NextCart ==
    \/ CreateSmartPhoneModel
    \/ \E m \in ProductIds, a \in Amounts :
          CreateVariant(m, nextVariantId, MoneyMaker(SHOP_DEFAULT_CURRENCY, a), 0)
    \/ CreateCustomer(1, "na")
    \/ CreateCart(1)
    \/ \E m \in ProductIds, c \in Codes \cup {None} : AddToCart(1, m, c, 1)
    \/ \E id \in CartItemIds : CallPopulateFromCartItem(id)

SpecCart == Init /\ [][NextCart]_vars

\* one cart item of the first model, from add-to-cart to population, while
\* the model's variants are repriced and deleted
NextReprice ==
    \/ CreateSmartPhoneModel
    \/ \E a \in Amounts :
          CreateVariant(1, nextVariantId, MoneyMaker(SHOP_DEFAULT_CURRENCY, a), 0)
    \/ \E id \in VariantIds, a \in Amounts :
          UpdateVariantPrice(id, MoneyMaker(SHOP_DEFAULT_CURRENCY, a))
    \/ \E id \in VariantIds : DeleteVariant(id)
    \/ CreateCustomer(1, "na")
    \/ CreateCart(1)
    \/ \E c \in Codes \cup {None} : AddToCart(1, 1, c, 1)
    \/ \E id \in CartItemIds : CallPopulateFromCartItem(id)

SpecReprice == Init /\ [][NextReprice]_vars

(***************************************************************************)
(* Product codes of the three product tables.                              *)
(***************************************************************************)
\* Commodity.objects.create(product_code, unit_price, quantity): a Product row
\* and its Commodity row, or neither
CreateCommodity(c, price, q) ==
    /\ nextProductId <= MaxProducts
    /\ IF CommodityCodeFree(c, 0) /\ QuantityCheck(q)
       THEN /\ products' = products \cup {[id |-> nextProductId, kind |-> "Commodity"]}
            /\ commodities' = commodities \cup
                   {[product_ptr |-> nextProductId, product_code |-> c,
                     unit_price |-> price, quantity |-> q]}
            /\ nextProductId' = nextProductId + 1
            /\ ret' = Done
       ELSE /\ UNCHANGED <<products, commodities, nextProductId>>
            /\ ret' = [op |-> "create_commodity", exc |-> "IntegrityError"]
    /\ UNCHANGED <<smartcards, variants, nextVariantId, shopVars, obj, req>>

\* SmartCard.objects.create(product_code, unit_price, quantity)
CreateSmartCard(c, price, q) ==
    /\ nextProductId <= MaxProducts
    /\ IF SmartCardCodeFree(c, 0) /\ QuantityCheck(q)
       THEN /\ products' = products \cup {[id |-> nextProductId, kind |-> "SmartCard"]}
            /\ smartcards' = smartcards \cup
                   {[product_ptr |-> nextProductId, product_code |-> c,
                     unit_price |-> price, quantity |-> q]}
            /\ nextProductId' = nextProductId + 1
            /\ ret' = Done
       ELSE /\ UNCHANGED <<products, smartcards, nextProductId>>
            /\ ret' = [op |-> "create_smartcard", exc |-> "IntegrityError"]
    /\ UNCHANGED <<commodities, variants, nextVariantId, shopVars, obj, req>>

\* commodity.product_code = c; commodity.save()
UpdateCommodityCode(pk, c) ==
    /\ \E r \in commodities :
        /\ r.product_ptr = pk
        /\ r.product_code # c
        /\ IF CommodityCodeFree(c, pk)
           THEN /\ commodities' = (commodities \ {r}) \cup {[r EXCEPT !.product_code = c]}
                /\ ret' = Done
           ELSE /\ UNCHANGED commodities
                /\ ret' = [op |-> "update_commodity", exc |-> "IntegrityError"]
    /\ UNCHANGED <<products, smartcards, variants, nextProductId, nextVariantId,
                   shopVars, obj, req>>

\* smartcard.product_code = c; smartcard.save()
UpdateSmartCardCode(pk, c) ==
    /\ \E r \in smartcards :
        /\ r.product_ptr = pk
        /\ r.product_code # c
        /\ IF SmartCardCodeFree(c, pk)
           THEN /\ smartcards' = (smartcards \ {r}) \cup {[r EXCEPT !.product_code = c]}
                /\ ret' = Done
           ELSE /\ UNCHANGED smartcards
                /\ ret' = [op |-> "update_smartcard", exc |-> "IntegrityError"]
    /\ UNCHANGED <<products, commodities, variants, nextProductId, nextVariantId,
                   shopVars, obj, req>>

\* variant.product_code = c; variant.save()
UpdateVariantCode(id, c) ==
    /\ \E v \in variants :
        /\ v.id = id
        /\ v.product_code # c
        /\ IF VariantCodeFree(c, id)
           THEN /\ variants' = (variants \ {v}) \cup {[v EXCEPT !.product_code = c]}
                /\ ret' = Done
           ELSE /\ UNCHANGED variants
                /\ ret' = [op |-> "update_variant", exc |-> "IntegrityError"]
    /\ UNCHANGED <<products, commodities, smartcards, nextProductId, nextVariantId,
                   shopVars, obj, req>>

NextCodes ==
    \/ CreateSmartPhoneModel
    \/ \E c \in Codes : CreateCommodity(c, UnitPrice, 0)
    \/ \E c \in Codes : CreateSmartCard(c, UnitPrice, 0)
    \/ \E m \in ProductIds, c \in Codes : CreateVariant(m, c, UnitPrice, 0)
    \/ \E pk \in ProductIds, c \in Codes : UpdateCommodityCode(pk, c)
    \/ \E pk \in ProductIds, c \in Codes : UpdateSmartCardCode(pk, c)
    \/ \E id \in VariantIds, c \in Codes : UpdateVariantCode(id, c)
    \/ \E m \in ProductIds, c \in Codes \cup {None} : CallGetProductVariant(m, c)

SpecCodes == Init /\ [][NextCodes]_vars

(***************************************************************************)
(* Customers and their orders.                                             *)
(***************************************************************************)
\* Order.objects.create(customer=u): the status column defaults to 'new'
CreateOrder(u) ==
    /\ nextOrderId <= MaxOrders
    /\ IsCustomer(u)
    /\ orders' = orders \cup {[id |-> nextOrderId, customer |-> u, status |-> "new"]}
    /\ nextOrderId' = nextOrderId + 1
    /\ ret' = Done
    /\ UNCHANGED <<catalogVars, customers, carts, cartItems, nextCartId, nextCartItemId,
                   priceAtAdd, orderVars, addressVars, translationVars, settingsVars, obj, req>>

\* the rows of a table that refer, through the column fk, to one of the keys
Referring(rows, fk, keys) == {r \in rows : r[fk] \in keys}

\* on_delete=SET_NULL and on_delete=SET_DEFAULT with default=None: the rows
\* with the column fk reset to None where it refers to one of the keys
ResetTo(rows, fk, keys) ==
    {IF r[fk] \in keys THEN [r EXCEPT ![fk] = None] ELSE r : r \in rows}

DeleteOrderOnly(id) ==
    /\ \E o \in orders :
        /\ o.id = id
        /\ orders' = orders \ {o}
    /\ ret' = Done
    /\ UNCHANGED <<catalogVars, customers, carts, cartItems, nextCartId, nextCartItemId,
                   nextOrderId, priceAtAdd, orderVars, addressVars, translationVars, settingsVars, obj, req>>

\* order.delete(): OrderItem.order, OrderPayment.order and Delivery.order are
\* CASCADE, DeliveryItem.delivery and DeliveryItem.item are CASCADE
DeleteOrder(id) ==
    /\ \E o \in orders :
        /\ o.id = id
        /\ orders' = orders \ {o}
    /\ LET items == Referring(orderItems, "order", {id})
           sent == Referring(deliveries, "order", {id})
       IN  /\ orderItems' = orderItems \ items
           /\ payments' = payments \ Referring(payments, "order", {id})
           /\ deliveries' = deliveries \ sent
           /\ deliveryItems' = (deliveryItems
                                  \ Referring(deliveryItems, "item", {i.id : i \in items}))
                                  \ Referring(deliveryItems, "delivery", {d.id : d \in sent})
    /\ ret' = Done
    /\ UNCHANGED <<catalogVars, customers, carts, cartItems, nextCartId, nextCartItemId,
                   nextOrderId, priceAtAdd, nextOrderItemId, nextPaymentId, nextDeliveryId,
                   nextDeliveryItemId, addressVars, translationVars, settingsVars, obj, req>>

DeleteCustomerCascading(u) ==
    /\ IsCustomer(u)
    /\ LET gone == Referring(carts, "customer", {u})
           billing == Referring(billingAddresses, "customer", {u})
           shipping == Referring(shippingAddresses, "customer", {u})
       IN  /\ customers' = {c \in customers : c.user # u}
           /\ orders' = orders \ Referring(orders, "customer", {u})
           /\ carts' = ResetTo(ResetTo(carts \ gone, "billing_address",
                                       {a.id : a \in billing}),
                               "shipping_address", {a.id : a \in shipping})
           /\ cartItems' = cartItems \ Referring(cartItems, "cart", {k.id : k \in gone})
           /\ billingAddresses' = billingAddresses \ billing
           /\ shippingAddresses' = shippingAddresses \ shipping
           /\ ret' = [op |-> "delete_customer", pk |-> u, exc |-> "none"]
    /\ UNCHANGED <<catalogVars, nextCartId, nextCartItemId, nextOrderId, priceAtAdd,
                   orderVars, nextBillingAddressId, nextShippingAddressId, translationVars,
                   settingsVars, obj, req>>

\* customer.delete(): refused while an Order refers to the customer
\* (Order.customer is PROTECT); else the customer goes with the cart, the
\* cart's items and the customer's addresses (Cart.customer, CartItem.cart,
\* BillingAddress.customer and ShippingAddress.customer are CASCADE), and a
\* cart that refers to a deleted address has the column reset (SET_DEFAULT)
DeleteCustomer(u) ==
    /\ IsCustomer(u)
    /\ IF \E o \in orders : o.customer = u
       THEN /\ UNCHANGED <<customers, carts, cartItems, billingAddresses, shippingAddresses>>
            /\ ret' = [op |-> "delete_customer", pk |-> u, exc |-> "ProtectedError"]
       ELSE LET gone == Referring(carts, "customer", {u})
                billing == Referring(billingAddresses, "customer", {u})
                shipping == Referring(shippingAddresses, "customer", {u})
            IN  /\ customers' = {c \in customers : c.user # u}
                /\ carts' = ResetTo(ResetTo(carts \ gone, "billing_address",
                                            {a.id : a \in billing}),
                                    "shipping_address", {a.id : a \in shipping})
                /\ cartItems' = cartItems \ Referring(cartItems, "cart", {k.id : k \in gone})
                /\ billingAddresses' = billingAddresses \ billing
                /\ shippingAddresses' = shippingAddresses \ shipping
                /\ ret' = [op |-> "delete_customer", pk |-> u, exc |-> "none"]
    /\ UNCHANGED <<catalogVars, orders, nextCartId, nextCartItemId, nextOrderId,
                   priceAtAdd, orderVars, nextBillingAddressId, nextShippingAddressId,
                   translationVars, settingsVars, obj, req>>

OrderIds == 1..MaxOrders

\* Customer.salutation: two of the choices 'mrs', 'mr' and 'na'
Salutations == {"mrs", "mr"}

NextCustomer ==
    \/ \E u \in UserIds, s \in Salutations : CreateCustomer(u, s)
    \/ \E u \in UserIds : CreateCart(u)
    \/ \E u \in UserIds : CreateOrder(u)
    \/ \E id \in OrderIds : DeleteOrder(id)
    \/ \E u \in UserIds : DeleteCustomer(u)

SpecCustomer == Init /\ [][NextCustomer]_vars

(***************************************************************************)
(* Order items and the deletion of products.                               *)
(***************************************************************************)
\* Product.product_name of product p; the model names a product by its number
ProductName(p) == p

\* order_item = OrderItem(order=o); order_item.populate_from_cart_item(
\* cart_item, request); order_item.save(): the populated item becomes a row,
\* an exception of populate_from_cart_item leaves the table as it was
SaveOrderItem(o, id) ==
    /\ nextOrderItemId <= MaxOrderItems
    /\ \E r \in orders : r.id = o
    /\ \E ci \in cartItems :
        /\ ci.id = id
        /\ IsSmartPhoneModel(ci.product)
        /\ LET r == populate_from_cart_item(ci)
           IN  IF r.exc = "none"
               THEN /\ orderItems' = orderItems \cup
                          {[id |-> nextOrderItemId, order |-> o, product |-> r.item.product,
                            product_name |-> ProductName(ci.product),
                            product_code |-> r.item.product_code,
                            unit_price |-> Quantize(r.item.unit_price)]}
                    /\ nextOrderItemId' = nextOrderItemId + 1
                    /\ ret' = Done
               ELSE /\ UNCHANGED <<orderItems, nextOrderItemId>>
                    /\ ret' = [op |-> "save_order_item", exc |-> r.exc]
    /\ UNCHANGED <<catalogVars, customers, carts, cartItems, orders, nextCartId,
                   nextCartItemId, nextOrderId, priceAtAdd, payments, deliveries,
                   deliveryItems, nextPaymentId, nextDeliveryId, nextDeliveryItemId,
                   addressVars, translationVars, settingsVars, obj, req>>

DeleteProductCascading(p) ==
    /\ \E r \in products :
        /\ r.id = p
        /\ products' = products \ {r}
    /\ commodities' = commodities \ Referring(commodities, "product_ptr", {p})
    /\ smartcards' = smartcards \ Referring(smartcards, "product_ptr", {p})
    /\ variants' = variants \ Referring(variants, "product", {p})
    /\ cartItems' = cartItems \ Referring(cartItems, "product", {p})
    /\ LET items == Referring(orderItems, "product", {p})
       IN  /\ orderItems' = orderItems \ items
           /\ deliveryItems' = deliveryItems
                                  \ Referring(deliveryItems, "item", {i.id : i \in items})
    /\ productTranslations' = productTranslations \ Referring(productTranslations, "master", {p})
    /\ smartCardTranslations' = smartCardTranslations
                                  \ Referring(smartCardTranslations, "master", {p})
    /\ smartPhoneModelTranslations' = smartPhoneModelTranslations
                                  \ Referring(smartPhoneModelTranslations, "master", {p})
    /\ ret' = Done
    /\ UNCHANGED <<nextProductId, nextVariantId, customers, carts, orders, nextCartId,
                   nextCartItemId, nextOrderId, priceAtAdd, payments, deliveries,
                   nextOrderItemId, nextPaymentId, nextDeliveryId, nextDeliveryItemId,
                   addressVars, nextProductTranslationId, nextSmartCardTranslationId,
                   nextSmartPhoneModelTranslationId, settingsVars, obj, req>>

\* product.delete(): the Product row goes with the row of its subclass table
\* (product_ptr is CASCADE), the variants of a SmartPhoneModel
\* (SmartPhoneVariant.product is CASCADE) and the cart items of the product
\* (CartItem.product is CASCADE); an order item of the product stays, its
\* product column reset (OrderItem.product is SET_NULL); the translations of
\* the product and of its subclass row go too (master is CASCADE)
DeleteProduct(p) ==
    /\ \E r \in products :
        /\ r.id = p
        /\ products' = products \ {r}
    /\ commodities' = commodities \ Referring(commodities, "product_ptr", {p})
    /\ smartcards' = smartcards \ Referring(smartcards, "product_ptr", {p})
    /\ variants' = variants \ Referring(variants, "product", {p})
    /\ cartItems' = cartItems \ Referring(cartItems, "product", {p})
    /\ orderItems' = ResetTo(orderItems, "product", {p})
    /\ productTranslations' = productTranslations \ Referring(productTranslations, "master", {p})
    /\ smartCardTranslations' = smartCardTranslations
                                  \ Referring(smartCardTranslations, "master", {p})
    /\ smartPhoneModelTranslations' = smartPhoneModelTranslations
                                  \ Referring(smartPhoneModelTranslations, "master", {p})
    /\ ret' = Done
    /\ UNCHANGED <<nextProductId, nextVariantId, customers, carts, orders, nextCartId,
                   nextCartItemId, nextOrderId, priceAtAdd, payments, deliveries,
                   deliveryItems, nextOrderItemId, nextPaymentId, nextDeliveryId,
                   nextDeliveryItemId, addressVars, nextProductTranslationId, nextSmartCardTranslationId,
                   nextSmartPhoneModelTranslationId, settingsVars, obj, req>>

OrderItemIds == 1..MaxOrderItems

\* one smart phone model at a time is on sale; cart items of its newest
\* variant become items of the one order while that variant is repriced and
\* deleted
NextOrderItem ==
    \/ products = {} /\ CreateSmartPhoneModel
    \/ \E m \in ProductIds : CreateVariant(m, nextVariantId, UnitPrice, 0)
    \/ \E a \in Amounts :
          UpdateVariantPrice(nextVariantId - 1, MoneyMaker(SHOP_DEFAULT_CURRENCY, a))
    \/ DeleteVariant(nextVariantId - 1)
    \/ \E p \in ProductIds : DeleteProduct(p)
    \/ customers = {} /\ CreateCustomer(1, "na")
    \/ carts = {} /\ CreateCart(1)
    \/ orders = {} /\ CreateOrder(1)
    \/ \E m \in ProductIds : AddToCart(1, m, nextVariantId - 1, 1)
    \/ \E id \in CartItemIds : SaveOrderItem(1, id)

SpecOrderItem == Init /\ [][NextOrderItem]_vars

(***************************************************************************)
(* Payments, deliveries, addresses and the deletions that cascade.         *)
(***************************************************************************)
\* OrderPayment.objects.create(order=o)
CreatePayment(o) ==
    /\ nextPaymentId <= MaxDependants
    /\ \E r \in orders : r.id = o
    /\ payments' = payments \cup {[id |-> nextPaymentId, order |-> o]}
    /\ nextPaymentId' = nextPaymentId + 1
    /\ ret' = Done
    /\ UNCHANGED <<catalogVars, customers, carts, cartItems, orders, nextCartId,
                   nextCartItemId, nextOrderId, priceAtAdd, orderItems, deliveries,
                   deliveryItems, nextOrderItemId, nextDeliveryId, nextDeliveryItemId,
                   addressVars, translationVars, settingsVars, obj, req>>

\* Delivery.objects.create(order=o)
CreateDelivery(o) ==
    /\ nextDeliveryId <= MaxDependants
    /\ \E r \in orders : r.id = o
    /\ deliveries' = deliveries \cup {[id |-> nextDeliveryId, order |-> o]}
    /\ nextDeliveryId' = nextDeliveryId + 1
    /\ ret' = Done
    /\ UNCHANGED <<catalogVars, customers, carts, cartItems, orders, nextCartId,
                   nextCartItemId, nextOrderId, priceAtAdd, orderItems, payments,
                   deliveryItems, nextOrderItemId, nextPaymentId, nextDeliveryItemId,
                   addressVars, translationVars, settingsVars, obj, req>>

\* DeliveryItem.objects.create(delivery=d, item=i)
CreateDeliveryItem(d, i) ==
    /\ nextDeliveryItemId <= MaxDependants
    /\ \E r \in deliveries : r.id = d
    /\ \E r \in orderItems : r.id = i
    /\ deliveryItems' = deliveryItems \cup
           {[id |-> nextDeliveryItemId, delivery |-> d, item |-> i]}
    /\ nextDeliveryItemId' = nextDeliveryItemId + 1
    /\ ret' = Done
    /\ UNCHANGED <<catalogVars, customers, carts, cartItems, orders, nextCartId,
                   nextCartItemId, nextOrderId, priceAtAdd, orderItems, payments,
                   deliveries, nextOrderItemId, nextPaymentId, nextDeliveryId,
                   addressVars, translationVars, settingsVars, obj, req>>

\* delivery.delete(): DeliveryItem.delivery is CASCADE
DeleteDelivery(d) ==
    /\ \E r \in deliveries :
        /\ r.id = d
        /\ deliveries' = deliveries \ {r}
    /\ deliveryItems' = deliveryItems \ Referring(deliveryItems, "delivery", {d})
    /\ ret' = Done
    /\ UNCHANGED <<catalogVars, customers, carts, cartItems, orders, nextCartId,
                   nextCartItemId, nextOrderId, priceAtAdd, orderItems, payments,
                   nextOrderItemId, nextPaymentId, nextDeliveryId, nextDeliveryItemId,
                   addressVars, translationVars, settingsVars, obj, req>>

\* order_item.delete(): DeliveryItem.item is CASCADE
DeleteOrderItem(i) ==
    /\ \E r \in orderItems :
        /\ r.id = i
        /\ orderItems' = orderItems \ {r}
    /\ deliveryItems' = deliveryItems \ Referring(deliveryItems, "item", {i})
    /\ ret' = Done
    /\ UNCHANGED <<catalogVars, customers, carts, cartItems, orders, nextCartId,
                   nextCartItemId, nextOrderId, priceAtAdd, payments, deliveries,
                   nextOrderItemId, nextPaymentId, nextDeliveryId, nextDeliveryItemId,
                   addressVars, translationVars, settingsVars, obj, req>>

\* BillingAddress.objects.create(customer=u)
CreateBillingAddress(u) ==
    /\ nextBillingAddressId <= MaxDependants
    /\ IsCustomer(u)
    /\ billingAddresses' = billingAddresses \cup
           {[id |-> nextBillingAddressId, customer |-> u]}
    /\ nextBillingAddressId' = nextBillingAddressId + 1
    /\ ret' = Done
    /\ UNCHANGED <<catalogVars, customers, carts, cartItems, orders, nextCartId,
                   nextCartItemId, nextOrderId, priceAtAdd, orderVars, shippingAddresses,
                   nextShippingAddressId, translationVars, settingsVars, obj, req>>

\* ShippingAddress.objects.create(customer=u)
CreateShippingAddress(u) ==
    /\ nextShippingAddressId <= MaxDependants
    /\ IsCustomer(u)
    /\ shippingAddresses' = shippingAddresses \cup
           {[id |-> nextShippingAddressId, customer |-> u]}
    /\ nextShippingAddressId' = nextShippingAddressId + 1
    /\ ret' = Done
    /\ UNCHANGED <<catalogVars, customers, carts, cartItems, orders, nextCartId,
                   nextCartItemId, nextOrderId, priceAtAdd, orderVars, billingAddresses,
                   nextBillingAddressId, translationVars, settingsVars, obj, req>>

\* cart.billing_address = b; cart.shipping_address = s; cart.save()
SetCartAddresses(cart, b, s) ==
    /\ \E r \in billingAddresses : r.id = b
    /\ \E r \in shippingAddresses : r.id = s
    /\ \E k \in carts :
        /\ k.id = cart
        /\ carts' = (carts \ {k}) \cup
               {[k EXCEPT !.billing_address = b, !.shipping_address = s]}
    /\ ret' = Done
    /\ UNCHANGED <<catalogVars, customers, cartItems, orders, nextCartId, nextCartItemId,
                   nextOrderId, priceAtAdd, orderVars, addressVars, translationVars, settingsVars, obj, req>>

\* billing_address.delete(): Cart.billing_address is SET_DEFAULT, default None
DeleteBillingAddress(b) ==
    /\ \E r \in billingAddresses :
        /\ r.id = b
        /\ billingAddresses' = billingAddresses \ {r}
    /\ carts' = ResetTo(carts, "billing_address", {b})
    /\ ret' = Done
    /\ UNCHANGED <<catalogVars, customers, cartItems, orders, nextCartId,
                   nextCartItemId, nextOrderId, priceAtAdd, orderVars, shippingAddresses,
                   nextBillingAddressId, nextShippingAddressId, translationVars, settingsVars, obj, req>>

\* shipping_address.delete(): Cart.shipping_address is SET_DEFAULT, default None
DeleteShippingAddress(a) ==
    /\ \E r \in shippingAddresses :
        /\ r.id = a
        /\ shippingAddresses' = shippingAddresses \ {r}
    /\ carts' = ResetTo(carts, "shipping_address", {a})
    /\ ret' = Done
    /\ UNCHANGED <<catalogVars, customers, cartItems, orders, nextCartId,
                   nextCartItemId, nextOrderId, priceAtAdd, orderVars, billingAddresses,
                   nextBillingAddressId, nextShippingAddressId, translationVars, settingsVars, obj, req>>

\* cart.delete(): CartItem.cart is CASCADE
DeleteCart(cart) ==
    /\ \E k \in carts :
        /\ k.id = cart
        /\ carts' = carts \ {k}
    /\ cartItems' = cartItems \ Referring(cartItems, "cart", {cart})
    /\ ret' = Done
    /\ UNCHANGED <<catalogVars, customers, orders, nextCartId, nextCartItemId,
                   nextOrderId, priceAtAdd, orderVars, addressVars, translationVars, settingsVars, obj, req>>

\* smart_phone_model.delete(): the deletion of the model's Product row
DeleteSmartPhoneModel(m) == IsSmartPhoneModel(m) /\ DeleteProduct(m)

DependantIds == 1..MaxDependants
CartIds == 1..MaxCustomers

\* OrderItem.objects.create(order=o, product=p, product_name, product_code,
\* _unit_price); the product column is nullable
CreateOrderItem(o, p, c, price) ==
    /\ nextOrderItemId <= MaxOrderItems
    /\ \E r \in orders : r.id = o
    /\ p # None => \E r \in products : r.id = p
    /\ orderItems' = orderItems \cup
           {[id |-> nextOrderItemId, order |-> o, product |-> p,
             product_name |-> ProductName(p), product_code |-> c, unit_price |-> price]}
    /\ nextOrderItemId' = nextOrderItemId + 1
    /\ ret' = Done
    /\ UNCHANGED <<catalogVars, customers, carts, cartItems, orders, nextCartId,
                   nextCartItemId, nextOrderId, priceAtAdd, payments, deliveries,
                   deliveryItems, nextPaymentId, nextDeliveryId, nextDeliveryItemId,
                   addressVars, translationVars, settingsVars, obj, req>>

\* the two users that shop
Shoppers == {1, 2}

\* no product, no address, no order, no cart, no payment or delivery was
\* created yet
NoCatalogYet == nextProductId = 1
NoAddressYet == nextBillingAddressId = 1 /\ nextShippingAddressId = 1
NoOrderYet == nextOrderId = 1
NoCartYet == nextCartId = 1
NoShipmentYet == nextPaymentId = 1 /\ nextDeliveryId = 1

\* users become customers and are deleted
NextCustomers ==
    \/ \E u \in Shoppers : CreateCustomer(u, "na")
    \/ \E u \in Shoppers : DeleteCustomer(u)

\* a catalog of smart phone models, one at a time, with the cart items and
\* the order items of the first customer that refer to them
NextCatalog ==
    \/ products = {} /\ CreateSmartPhoneModel
    \/ variants = {} /\ \E m \in ProductIds : CreateVariant(m, nextVariantId, UnitPrice, 0)
    \/ \E m \in ProductIds : DeleteSmartPhoneModel(m)
    \/ \E k \in CartIds, m \in ProductIds : AddToCart(k, m, None, 1)
    \/ \E o \in OrderIds, m \in ProductIds : CreateOrderItem(o, m, None, 1)

\* customers with a cart and addresses, of their own or of the other customer
NextAddresses ==
    \/ billingAddresses = {} /\ \E u \in Shoppers : CreateBillingAddress(u)
    \/ shippingAddresses = {} /\ \E u \in Shoppers : CreateShippingAddress(u)
    \/ \E k \in CartIds, b \in DependantIds, a \in DependantIds : SetCartAddresses(k, b, a)
    \/ \E b \in DependantIds : DeleteBillingAddress(b)
    \/ \E a \in DependantIds : DeleteShippingAddress(a)

\* the orders of the first customer with their items, payments and deliveries
NextShipments ==
    \/ orderItems = {} /\ \E o \in OrderIds : CreateOrderItem(o, None, None, 1)
    \/ payments = {} /\ \E o \in OrderIds : CreatePayment(o)
    \/ deliveries = {} /\ \E o \in OrderIds : CreateDelivery(o)
    \/ deliveryItems = {}
          /\ \E d \in DependantIds, i \in OrderItemIds : CreateDeliveryItem(d, i)
    \/ \E d \in DependantIds : DeleteDelivery(d)

\* carts and orders, and their deletion
NextCartsAndOrders ==
    \/ NoOrderYet /\ \E u \in Shoppers : CreateCart(u)
    \/ NoCartYet /\ NoAddressYet /\ CreateOrder(1)
    \/ \E k \in CartIds : DeleteCart(k)
    \/ \E o \in OrderIds : DeleteOrder(o)
    \/ \E i \in OrderItemIds : DeleteOrderItem(i)

\* the shop is followed through one kind of activity at a time: carts or
\* orders, and with them a catalog, or else addresses or shipments
NextIntegrity ==
    \/ NextCustomers
    \/ NextCartsAndOrders
    \/ NoAddressYet /\ NoShipmentYet /\ NextCatalog
    \/ NoCatalogYet /\ NoOrderYet /\ NextAddresses
    \/ NoCatalogYet /\ NoCartYet /\ NextShipments

SpecIntegrity == Init /\ [][NextIntegrity]_vars

(***************************************************************************)
(* A request that deducts the stock of two ordered items, one after the    *)
(* other, while other requests read the variants.                          *)
(***************************************************************************)
\* the rows the running request reads and writes
RequestRows == IF ATOMIC_REQUESTS THEN req.work ELSE variants

\* the request starts; todo lists the [product, product_code, quantity] to deduct
BeginRequest(todo) ==
    /\ req.pc = "idle"
    /\ req' = [pc |-> "run", todo |-> todo, done |-> <<>>, snapshot |-> variants,
               work |-> variants]
    /\ ret' = Done
    /\ UNCHANGED <<catalogVars, shopVars, obj>>

\* the request calls product.deduct_from_stock for its next item; an
\* exception ends the request
RequestDeduct ==
    /\ req.pc = "run"
    /\ req.todo # <<>>
    /\ LET it == Head(req.todo)
           r == deduct_from_stock(RequestRows, it.product, it.quantity, it.product_code)
       IN  IF r.exc = "none"
           THEN /\ req' = [req EXCEPT !.todo = Tail(req.todo), !.done = Append(req.done, it),
                                      !.work = r.rows]
                /\ variants' = IF ATOMIC_REQUESTS THEN variants ELSE r.rows
                /\ ret' = Done
           ELSE /\ req' = IdleRequest
                /\ UNCHANGED variants
                /\ ret' = [op |-> "request", exc |-> r.exc, done |-> req.done,
                           snapshot |-> req.snapshot]
    /\ UNCHANGED <<products, commodities, smartcards, nextProductId, nextVariantId,
                   shopVars, obj>>

\* the request returns its response
EndRequest ==
    /\ req.pc = "run"
    /\ req.todo = <<>>
    /\ variants' = IF ATOMIC_REQUESTS THEN req.work ELSE variants
    /\ req' = IdleRequest
    /\ ret' = [op |-> "request", exc |-> "none", done |-> req.done,
               snapshot |-> req.snapshot]
    /\ UNCHANGED <<products, commodities, smartcards, nextProductId, nextVariantId,
                   shopVars, obj>>

OrderedItem(c) == [product |-> 1, product_code |-> c, quantity |-> 1]

NextRequest ==
    \/ CreateSmartPhoneModel
    \/ \E m \in ProductIds, q \in Quantities :
          CreateVariant(m, nextVariantId, UnitPrice, q)
    \/ \E c1 \in Codes, c2 \in Codes : BeginRequest(<<OrderedItem(c1), OrderedItem(c2)>>)
    \/ RequestDeduct
    \/ EndRequest
    \/ \E m \in ProductIds, c \in Codes : CallGetProductVariant(m, c)

SpecRequest == Init /\ [][NextRequest]_vars

(***************************************************************************)
(* The stock of the products.                                              *)
(***************************************************************************)
\* a request calls deduct_from_stock(q, product_code=c) on model m; c is None
\* when the keyword argument is missing
CallDeductFromStock(m, q, c) ==
    /\ IsSmartPhoneModel(m)
    /\ variants' = deduct_from_stock(variants, m, q, c).rows
    /\ ret' = [op |-> "deduct_from_stock", pk |-> m, code |-> c, quantity |-> q,
               exc |-> deduct_from_stock(variants, m, q, c).exc]
    /\ UNCHANGED <<products, commodities, smartcards, nextProductId, nextVariantId,
                   shopVars, obj, req>>

CallGetAvailability(m, c) ==
    /\ IsSmartPhoneModel(m)
    /\ ret' = [op |-> "get_availability", pk |-> m, code |-> c,
               exc |-> get_availability(m, c).exc, value |-> get_availability(m, c).value]
    /\ UNCHANGED <<catalogVars, shopVars, obj, req>>

\* the quantities a caller may try to store: one below zero, none, and the most
StockInputs == {0 - 1, 0, MaxQuantity}

\* the quantities a caller deducts
Deductions == {1, MaxQuantity + 1}

NextStock ==
    \/ CreateSmartPhoneModel
    \/ \E q \in StockInputs : CreateCommodity(1, UnitPrice, q)
    \/ \E q \in StockInputs : CreateSmartCard(1, UnitPrice, q)
    \/ \E m \in ProductIds, q \in StockInputs : CreateVariant(m, nextVariantId, UnitPrice, q)
    \/ \E m \in ProductIds, q \in Deductions, c \in Codes : CallDeductFromStock(m, q, c)
    \/ \E m \in ProductIds, c \in Codes \cup {None} : CallGetAvailability(m, c)

SpecStock == Init /\ [][NextStock]_vars

NextVariant ==
    \/ CreateSmartPhoneModel
    \/ \E m \in ProductIds, c \in Codes :
          CreateVariant(m, c, UnitPrice, 0)
    \/ \E id \in VariantIds : DeleteVariant(id)
    \/ \E m \in ProductIds, c \in Codes \cup {None} : CallGetProductVariant(m, c)

SpecVariant == Init /\ [][NextVariant]_vars

(***************************************************************************)
(* Translations of the products.                                           *)
(***************************************************************************)
\* LANGUAGES of the settings
LanguageCodes == {"de", "en"}

TranslationUnchecked(rows, lang, master) == TRUE

\* unique_together (language_code, master): no row holds the pair yet; the
\* master column is nullable, and the database compares no pair that has a
\* NULL in it
TranslationFree(rows, lang, master) ==
    master = None \/ \A t \in rows : ~(t.language_code = lang /\ t.master = master)

\* the masters a translation row may name: None or the key of a row of the
\* table the foreign key points to
ProductMasters == {None} \cup {p.id : p \in products}
SmartCardMasters == {None} \cup {r.product_ptr : r \in smartcards}
SmartPhoneModelMasters == {None} \cup {p.id : p \in {r \in products : r.kind = "SmartPhoneModel"}}

\* ProductTranslation.objects.create(language_code=lang, master=master)
CreateProductTranslation(lang, master) ==
    /\ nextProductTranslationId <= MaxTranslations
    /\ master \in ProductMasters
    /\ IF TranslationFree(productTranslations, lang, master)
       THEN /\ productTranslations' = productTranslations \cup
                   {[id |-> nextProductTranslationId, language_code |-> lang,
                     master |-> master]}
            /\ nextProductTranslationId' = nextProductTranslationId + 1
            /\ ret' = Done
       ELSE /\ UNCHANGED <<productTranslations, nextProductTranslationId>>
            /\ ret' = [op |-> "create_translation", table |-> "ProductTranslation",
                       language_code |-> lang, master |-> master,
                       exc |-> "IntegrityError"]
    /\ UNCHANGED <<catalogVars, customers, carts, cartItems, orders, nextCartId,
                   nextCartItemId, nextOrderId, priceAtAdd, orderVars, addressVars,
                   smartCardTranslations, smartPhoneModelTranslations,
                   nextSmartCardTranslationId, nextSmartPhoneModelTranslationId, settingsVars, obj, req>>

\* SmartCardTranslation.objects.create(language_code=lang, master=master)
CreateSmartCardTranslation(lang, master) ==
    /\ nextSmartCardTranslationId <= MaxTranslations
    /\ master \in SmartCardMasters
    /\ IF TranslationFree(smartCardTranslations, lang, master)
       THEN /\ smartCardTranslations' = smartCardTranslations \cup
                   {[id |-> nextSmartCardTranslationId, language_code |-> lang,
                     master |-> master]}
            /\ nextSmartCardTranslationId' = nextSmartCardTranslationId + 1
            /\ ret' = Done
       ELSE /\ UNCHANGED <<smartCardTranslations, nextSmartCardTranslationId>>
            /\ ret' = [op |-> "create_translation", table |-> "SmartCardTranslation",
                       language_code |-> lang, master |-> master,
                       exc |-> "IntegrityError"]
    /\ UNCHANGED <<catalogVars, customers, carts, cartItems, orders, nextCartId,
                   nextCartItemId, nextOrderId, priceAtAdd, orderVars, addressVars,
                   productTranslations, smartPhoneModelTranslations,
                   nextProductTranslationId, nextSmartPhoneModelTranslationId, settingsVars, obj, req>>

\* SmartPhoneModelTranslation.objects.create(language_code=lang, master=master)
CreateSmartPhoneModelTranslation(lang, master) ==
    /\ nextSmartPhoneModelTranslationId <= MaxTranslations
    /\ master \in SmartPhoneModelMasters
    /\ IF TranslationFree(smartPhoneModelTranslations, lang, master)
       THEN /\ smartPhoneModelTranslations' = smartPhoneModelTranslations \cup
                   {[id |-> nextSmartPhoneModelTranslationId, language_code |-> lang,
                     master |-> master]}
            /\ nextSmartPhoneModelTranslationId' = nextSmartPhoneModelTranslationId + 1
            /\ ret' = Done
       ELSE /\ UNCHANGED <<smartPhoneModelTranslations, nextSmartPhoneModelTranslationId>>
            /\ ret' = [op |-> "create_translation", table |-> "SmartPhoneModelTranslation",
                       language_code |-> lang, master |-> master,
                       exc |-> "IntegrityError"]
    /\ UNCHANGED <<catalogVars, customers, carts, cartItems, orders, nextCartId,
                   nextCartItemId, nextOrderId, priceAtAdd, orderVars, addressVars,
                   productTranslations, smartCardTranslations,
                   nextProductTranslationId, nextSmartCardTranslationId, settingsVars, obj, req>>

\* no translation of the two other tables was created yet
OnlyProductTranslations ==
    nextSmartCardTranslationId = 1 /\ nextSmartPhoneModelTranslationId = 1
OnlySmartCardTranslations ==
    nextProductTranslationId = 1 /\ nextSmartPhoneModelTranslationId = 1
OnlySmartPhoneModelTranslations ==
    nextProductTranslationId = 1 /\ nextSmartCardTranslationId = 1

\* the catalog gets products and translations, one translation table at a
\* time, and loses products
NextTranslation ==
    \/ CreateSmartPhoneModel
    \/ CreateSmartCard(nextProductId, UnitPrice, 0)
    \/ \E lang \in LanguageCodes, master \in ProductIds \cup {None} :
          OnlyProductTranslations /\ CreateProductTranslation(lang, master)
    \/ \E lang \in LanguageCodes, master \in ProductIds \cup {None} :
          OnlySmartCardTranslations /\ CreateSmartCardTranslation(lang, master)
    \/ \E lang \in LanguageCodes, master \in ProductIds \cup {None} :
          OnlySmartPhoneModelTranslations /\ CreateSmartPhoneModelTranslation(lang, master)
    \/ \E p \in ProductIds : DeleteProduct(p)

SpecTranslation == Init /\ [][NextTranslation]_vars

(***************************************************************************)
(* The price an instance remembers.                                        *)
(***************************************************************************)
\* the request argument of the price methods: who asks
Requests == {"anonymous", "customer"}

\* a request calls get_price(request) on the instance it holds; the method
\* does not read its argument
CallGetPriceFor(request) ==
    /\ obj.pk # 0
    /\ obj' = [obj EXCEPT !.hasPrice = TRUE, !.price = get_price(obj)]
    /\ ret' = [op |-> "get_price", pk |-> obj.pk, first |-> ~obj.hasPrice,
               request |-> request, value |-> get_price(obj)]
    /\ UNCHANGED <<catalogVars, shopVars, req>>

\* one model whose variants come, change their price and go while an
\* instance of the model is asked for its price
NextCache ==
    \/ products = {} /\ CreateSmartPhoneModel
    \/ \E a \in Amounts :
          CreateVariant(1, nextVariantId, MoneyMaker(SHOP_DEFAULT_CURRENCY, a), 0)
    \/ \E id \in VariantIds, a \in Amounts :
          UpdateVariantPrice(id, MoneyMaker(SHOP_DEFAULT_CURRENCY, a))
    \/ \E id \in VariantIds : DeleteVariant(id)
    \/ LoadModel(1)
    \/ \E request \in Requests : CallGetPriceFor(request)

SpecCache == Init /\ [][NextCache]_vars

(***************************************************************************)
(* get_price query by query, while other requests write the variants.      *)
(***************************************************************************)
\* get_price(request) on a fresh instance of model m runs its first query,
\* self.variants.exists(): without variants it returns Money() at once
GetPriceExists(m) ==
    /\ req.pc = "idle"
    /\ IsSmartPhoneModel(m)
    /\ IF Exists(VariantsOf(m))
       THEN /\ req' = [pc |-> "first", pk |-> m, atExists |-> VariantsOf(m)]
            /\ ret' = Done
       ELSE /\ req' = IdleRequest
            /\ ret' = [op |-> "get_price_queries", pk |-> m, exc |-> "none",
                       value |-> Money, seen |-> {VariantsOf(m)}]
    /\ UNCHANGED <<catalogVars, shopVars, obj>>

\* the second query, self.variants.first().unit_price.currency: first() is
\* None when the model has no variant by now, and None has no unit_price
GetPriceFirst ==
    /\ req.pc = "first"
    /\ IF Exists(VariantsOf(req.pk))
       THEN /\ req' = [pc |-> "aggregate", pk |-> req.pk, atExists |-> req.atExists,
                       atFirst |-> VariantsOf(req.pk),
                       currency |-> First(VariantsOf(req.pk)).unit_price.currency]
            /\ ret' = Done
       ELSE /\ req' = IdleRequest
            /\ ret' = [op |-> "get_price_queries", pk |-> req.pk, exc |-> "AttributeError",
                       value |-> Money, seen |-> {req.atExists, VariantsOf(req.pk)}]
    /\ UNCHANGED <<catalogVars, shopVars, obj>>

\* the third query, self.variants.aggregate(Min('unit_price')), and the
\* return of MoneyMaker(currency)(minimum)
GetPriceAggregate ==
    /\ req.pc = "aggregate"
    /\ req' = IdleRequest
    /\ ret' = [op |-> "get_price_queries", pk |-> req.pk, exc |-> "none",
               value |-> MoneyMaker(req.currency, AggregateMin(VariantsOf(req.pk))),
               seen |-> {req.atExists, req.atFirst, VariantsOf(req.pk)}]
    /\ UNCHANGED <<catalogVars, shopVars, obj>>

NextRace ==
    \/ products = {} /\ CreateSmartPhoneModel
    \/ \E price \in MoneyValues : CreateVariant(1, nextVariantId, price, 0)
    \/ \E id \in VariantIds : DeleteVariant(id)
    \/ GetPriceExists(1)
    \/ GetPriceFirst
    \/ GetPriceAggregate

SpecRace == Init /\ [][NextRace]_vars

(***************************************************************************)
(* Looking a product up in a cart.                                         *)
(***************************************************************************)
\* the keyword arguments of a call: product_code given with a value, or not
\* given at all
KwArgs == {[given |-> TRUE, product_code |-> c] : c \in Codes \cup {None}}
              \cup {[given |-> FALSE, product_code |-> None]}

\* the return value None of is_in_cart
NoCartItem == [id |-> 0, cart |-> 0, product |-> 0, product_code |-> None, quantity |-> 0]

is_in_cart_any_cart(m, cart, kwargs) ==
    IF ~kwargs.given THEN {NoCartItem}
    ELSE LET found == {ci \in cartItems : ci.product = m
                                            /\ ci.product_code = kwargs.product_code}
         IN  IF found = {} THEN {NoCartItem} ELSE found

\* SmartPhoneModel.is_in_cart(cart, **kwargs) on model m: the values it may
\* return.  Without product_code it returns None; else it walks the items of
\* the cart that refer to the model, in the order the database gives them,
\* and returns the first one that has the code, or None after the loop
is_in_cart(m, cart, kwargs) ==
    IF ~kwargs.given THEN {NoCartItem}
    ELSE LET cart_item_qs == {ci \in cartItems : ci.cart = cart /\ ci.product = m}
             found == {ci \in cart_item_qs : ci.product_code = kwargs.product_code}
         IN  IF found = {} THEN {NoCartItem} ELSE found

\* a request calls is_in_cart on model m
CallIsInCart(m, cart, kwargs) ==
    /\ IsSmartPhoneModel(m)
    /\ \E k \in carts : k.id = cart
    /\ \E item \in is_in_cart(m, cart, kwargs) :
          ret' = [op |-> "is_in_cart", pk |-> m, cart |-> cart, kwargs |-> kwargs,
                  item |-> item]
    /\ UNCHANGED <<catalogVars, shopVars, obj, req>>

\* the catalog first, then the customers, then their carts, then the items
NextInCart ==
    \/ customers = {} /\ CreateSmartPhoneModel
    \/ \E u \in Shoppers : carts = {} /\ CustomerUserFree(u) /\ CreateCustomer(u, "na")
    \/ \E u \in Shoppers : cartItems = {} /\ CartCustomerFree(u) /\ CreateCart(u)
    \/ \E k \in CartIds, m \in ProductIds, c \in Codes \cup {None} : AddToCart(k, m, c, 1)
    \/ \E m \in ProductIds, k \in CartIds, kwargs \in KwArgs : CallIsInCart(m, k, kwargs)

SpecInCart == Init /\ [][NextInCart]_vars

(***************************************************************************)
(* Prices of three decimal places in order items of two.                   *)
(***************************************************************************)
\* one variant of any price, put into a cart and saved as an order item
NextDecimal ==
    \/ products = {} /\ CreateSmartPhoneModel
    \/ \E a \in FineAmounts :
          variants = {} /\ CreateVariant(1, nextVariantId, MoneyMaker(SHOP_DEFAULT_CURRENCY, a), 0)
    \/ customers = {} /\ CreateCustomer(1, "na")
    \/ carts = {} /\ CreateCart(1)
    \/ orders = {} /\ CreateOrder(1)
    \/ AddToCart(1, 1, nextVariantId - 1, 1)
    \/ \E id \in CartItemIds : SaveOrderItem(1, id)

SpecDecimal == Init /\ [][NextDecimal]_vars

(***************************************************************************)
(* The settings module and the environment of the process.                 *)
(***************************************************************************)
\* the values an environment variable is given
EnvironmentValues == {"", "0", "false", "1", "localhost", "redis.example"}

\* the environment gets name=value; settings already loaded stay as they are
SetEnv(name, value) ==
    /\ environ' = [environ EXCEPT ![name] = Str(value)]
    /\ ret' = Done
    /\ UNCHANGED <<catalogVars, customers, carts, cartItems, orders, nextCartId,
                   nextCartItemId, nextOrderId, priceAtAdd, orderVars, addressVars,
                   translationVars, settings, obj, req>>

\* the process starts and executes the settings module
LoadSettings ==
    /\ ~settings.loaded
    /\ settings' = Settings(environ)
    /\ ret' = [op |-> "load_settings", environ |-> environ]
    /\ UNCHANGED <<catalogVars, customers, carts, cartItems, orders, nextCartId,
                   nextCartItemId, nextOrderId, priceAtAdd, orderVars, addressVars,
                   translationVars, environ, obj, req>>

\* the process ends; the next one starts in the same environment
Restart ==
    /\ settings.loaded
    /\ settings' = NotLoaded
    /\ ret' = Done
    /\ UNCHANGED <<catalogVars, customers, carts, cartItems, orders, nextCartId,
                   nextCartItemId, nextOrderId, priceAtAdd, orderVars, addressVars,
                   translationVars, environ, obj, req>>

NextSettings ==
    \/ \E name \in EnvironmentVariables, value \in EnvironmentValues : SetEnv(name, value)
    \/ LoadSettings
    \/ Restart

SpecSettings == Init /\ [][NextSettings]_vars

(***************************************************************************)
(* The price of a commodity, a smart card and a smart phone variant.       *)
(***************************************************************************)
Commodity_get_price_by_request(row, request) ==
    IF request = "anonymous" THEN Money ELSE row.unit_price

\* Commodity.get_price(request) on the instance read from row
Commodity_get_price(row, request) == row.unit_price

\* SmartCard.get_price(request) on the instance read from row
SmartCard_get_price(row, request) == row.unit_price

\* SmartPhoneVariant.get_price(request) on the instance read from row
SmartPhoneVariant_get_price(row, request) == row.unit_price

\* a request calls get_price on the commodity pk
CallCommodityGetPrice(pk, request) ==
    /\ \E row \in commodities :
          /\ row.product_ptr = pk
          /\ ret' = [op |-> "unit_price", model |-> "Commodity", pk |-> pk,
                     request |-> request, value |-> Commodity_get_price(row, request)]
    /\ UNCHANGED <<catalogVars, shopVars, obj, req>>

\* a request calls get_price on the smart card pk
CallSmartCardGetPrice(pk, request) ==
    /\ \E row \in smartcards :
          /\ row.product_ptr = pk
          /\ ret' = [op |-> "unit_price", model |-> "SmartCard", pk |-> pk,
                     request |-> request, value |-> SmartCard_get_price(row, request)]
    /\ UNCHANGED <<catalogVars, shopVars, obj, req>>

\* a request calls get_price on the smart phone variant pk
CallSmartPhoneVariantGetPrice(pk, request) ==
    /\ \E row \in variants :
          /\ row.id = pk
          /\ ret' = [op |-> "unit_price", model |-> "SmartPhoneVariant", pk |-> pk,
                     request |-> request,
                     value |-> SmartPhoneVariant_get_price(row, request)]
    /\ UNCHANGED <<catalogVars, shopVars, obj, req>>

\* the catalog first, each product with a price of its own, then the calls
NextUnitPrice ==
    \/ \E a \in Amounts :
          /\ ret.op # "unit_price"
          /\ \A p \in products : p.kind # "SmartPhoneModel"
          /\ \/ CreateCommodity(nextProductId, MoneyMaker(SHOP_DEFAULT_CURRENCY, a), 0)
             \/ CreateSmartCard(nextProductId, MoneyMaker(SHOP_DEFAULT_CURRENCY, a), 0)
    \/ ret.op # "unit_price" /\ variants = {} /\ CreateSmartPhoneModel
    \/ \E m \in ProductIds, price \in {UnitPrice, MoneyMaker("USD", Cent * MaxPrice)} :
          ret.op # "unit_price" /\ CreateVariant(m, nextVariantId, price, 0)
    \/ \E pk \in ProductIds, request \in Requests : CallCommodityGetPrice(pk, request)
    \/ \E pk \in ProductIds, request \in Requests : CallSmartCardGetPrice(pk, request)
    \/ \E pk \in VariantIds, request \in Requests :
          CallSmartPhoneVariantGetPrice(pk, request)

SpecUnitPrice == Init /\ [][NextUnitPrice]_vars

(***************************************************************************)
(* Claims.                                                                 *)
(***************************************************************************)
FirstCallWithVariants ==
    /\ ret.op = "get_price"
    /\ ret.first
    /\ \E v \in variants : v.product = ret.pk

\* C1: the first call of get_price on an instance of a model that has a
\* variant returns the minimum of the unit prices of the model's variants:
\* some variant has exactly the returned amount and none has a lower one.
C1_FirstGetPriceIsMinimum ==
    FirstCallWithVariants =>
        /\ \E v \in variants : v.product = ret.pk /\ v.unit_price.amount = ret.value.amount
        /\ \A v \in variants : v.product = ret.pk => v.unit_price.amount >= ret.value.amount

\* get_price has answered a first call for a model with two variants of
\* different prices, the older one being the dearer
C1_Witness ==
    /\ FirstCallWithVariants
    /\ \E v, w \in variants :
          /\ v.product = ret.pk /\ w.product = ret.pk
          /\ v.id < w.id
          /\ v.unit_price.amount > w.unit_price.amount

\* C2: the currency of the price get_price returns is the currency of the
\* model's first variant (lowest primary key), whatever the currencies of the
\* other variants, the cheapest one included.
C2_CurrencyOfFirstVariant ==
    FirstCallWithVariants =>
        \A v \in variants :
            (v.product = ret.pk /\ \A w \in variants : w.product = ret.pk => v.id <= w.id)
                => ret.value.currency = v.unit_price.currency

\* get_price has answered for a model whose cheapest variant is not the first
\* one and is priced in another currency
C2_Witness ==
    /\ FirstCallWithVariants
    /\ \E v, w \in variants :
          /\ v.product = ret.pk /\ w.product = ret.pk
          /\ v.id < w.id
          /\ v.unit_price.amount > w.unit_price.amount
          /\ v.unit_price.currency # w.unit_price.currency
          /\ ret.value.currency = v.unit_price.currency

Matching(m, c) == {v \in variants : v.product = m /\ v.product_code = c}

\* C6: get_product_variant(product_code=c) on a model returns the variant of
\* that model with code c whenever there is one, and never returns a variant
\* of another model.
C6_ReturnsOwnVariant ==
    ret.op = "get_product_variant" =>
        /\ \A v \in Matching(ret.pk, ret.code) : ret.exc = "none" /\ ret.row = v
        /\ ret.exc = "none" => ret.row \in variants /\ ret.row.product = ret.pk

\* get_product_variant has returned a variant while another model has
\* variants too
C6_Witness ==
    /\ ret.op = "get_product_variant"
    /\ ret.exc = "none"
    /\ ret.row \in Matching(ret.pk, ret.code)
    /\ \E w \in variants : w.product # ret.pk

\* C7: get_product_variant raises SmartPhoneModel.DoesNotExist whenever the
\* model has no variant with the given code, also when the code is that of
\* another model's variant and when no product_code is passed; the variants
\* are left unchanged.
C7_MissingVariantRaises ==
    [][ret'.op = "get_product_variant" =>
         /\ variants' = variants
         /\ Matching(ret'.pk, ret'.code) = {} => ret'.exc = "SmartPhoneModel.DoesNotExist"]_vars

\* the lookup has failed for a code that names a variant of another model
C7_Witness ==
    /\ ret.op = "get_product_variant"
    /\ ret.exc = "SmartPhoneModel.DoesNotExist"
    /\ \E w \in variants : w.product # ret.pk /\ w.product_code = ret.code

\* the lookup has failed because no product_code was passed
C7_WitnessNoCode ==
    /\ ret.op = "get_product_variant"
    /\ ret.exc = "SmartPhoneModel.DoesNotExist"
    /\ ret.code = None
    /\ \E w \in variants : w.product = ret.pk

Populated == ret.op = "populate_from_cart_item"

\* C3: populate_from_cart_item fails with CartItem.DoesNotExist whenever the
\* cart item's product_code names no existing variant of the cart item's
\* product (a SmartPhoneModel); it never completes in that case.
C3_MissingVariantIsNotFound ==
    (Populated /\ Matching(ret.cart_item.product, ret.cart_item.product_code) = {})
        => ret.exc = "CartItem.DoesNotExist"

\* population has failed for a cart item whose code names a variant of
\* another model only
C3_Witness ==
    /\ Populated
    /\ ret.exc = "CartItem.DoesNotExist"
    /\ Matching(ret.cart_item.product, ret.cart_item.product_code) = {}
    /\ \E w \in variants : w.product_code = ret.cart_item.product_code

\* C4: after a successful populate_from_cart_item the order item's unit
\* price is the unit price of the variant of cart_item.product with code
\* cart_item.product_code: the price of that variant, not the model's
\* starting price.
C4_UnitPriceOfResolvedVariant ==
    (Populated /\ ret.exc = "none") =>
        /\ Matching(ret.cart_item.product, ret.cart_item.product_code) # {}
        /\ \A v \in Matching(ret.cart_item.product, ret.cart_item.product_code) :
              ret.item.unit_price = v.unit_price.amount

\* an order item was populated from a variant that is dearer than another
\* variant of the same model
C4_Witness ==
    /\ Populated
    /\ ret.exc = "none"
    /\ \E w \in variants :
          /\ w.product = ret.cart_item.product
          /\ w.unit_price.amount < ret.item.unit_price

RepricedSinceAdd ==
    /\ Populated
    /\ ret.exc = "none"
    /\ \E v \in Matching(ret.cart_item.product, ret.cart_item.product_code) :
          v.unit_price.amount # priceAtAdd[ret.cart_item.id]

\* C5 as claimed: the populated unit price is the unit price the variant had
\* at the time the item was added to the cart.
C5_PriceAtAddToCart ==
    (Populated /\ ret.exc = "none" /\ priceAtAdd[ret.cart_item.id] # NaN)
        => ret.item.unit_price = priceAtAdd[ret.cart_item.id]

\* C5 as amended: when the variant's unit price differs from the one it had
\* when the item was added to the cart, the populated unit price is the
\* variant's price at the time populate_from_cart_item runs, not the earlier
\* one.
C5_PriceAtPopulate ==
    RepricedSinceAdd =>
        /\ ret.item.unit_price # priceAtAdd[ret.cart_item.id]
        /\ \E v \in variants :
              /\ v.product = ret.cart_item.product
              /\ v.product_code = ret.cart_item.product_code
              /\ v.unit_price.amount = ret.item.unit_price

\* an order item was populated from a variant that was repriced after the
\* item was put into the cart
C5_Witness == RepricedSinceAdd /\ priceAtAdd[ret.cart_item.id] # NaN

\* the rows after the deductions of items, made one after the other
RECURSIVE Deducted(_, _)
Deducted(rows, items) ==
    IF items = <<>> THEN rows
    ELSE Deducted({IF v.product = Head(items).product /\ v.product_code = Head(items).product_code
                   THEN [v EXCEPT !.quantity = v.quantity - Head(items).quantity]
                   ELSE v : v \in rows},
                  Tail(items))

UniqueCodes ==
    /\ \A v, w \in variants : v.product_code = w.product_code => v = w
    /\ \A v, w \in commodities : v.product_code = w.product_code => v = w
    /\ \A v, w \in smartcards : v.product_code = w.product_code => v = w

\* C9: in each of the tables Commodity, SmartCard and SmartPhoneVariant no
\* two rows have the same product_code, after any creations and updates, so
\* get_product_variant never matches more than one variant.
C9_ProductCodesUnique ==
    /\ UniqueCodes
    /\ \A v, w \in variants : v.id = w.id => v = w
    /\ \A m \in ProductIds, c \in Codes : Cardinality(Matching(m, c)) <= 1
    /\ ret.op = "get_product_variant" => ret.exc # "SmartPhoneVariant.MultipleObjectsReturned"

\* the database has refused a product code that another variant holds, of
\* another model
C9_Witness ==
    /\ ret.op \in {"create_variant", "update_variant"}
    /\ ret.exc = "IntegrityError"
    /\ \E v, w \in variants : v.product # w.product

\* a commodity and a smart card hold the same product code
C9_WitnessAcrossTables ==
    \E r \in commodities, t \in smartcards : r.product_code = t.product_code

\* C10: a customer that has an order is not deleted, every order refers to
\* an existing customer, and a refused deletion leaves customers, carts and
\* orders as they were.
C10_CustomerWithOrdersProtected ==
    [][/\ \A c \in customers : (\E o \in orders : o.customer = c.user) => c \in customers'
       /\ \A o \in orders' : \E c \in customers' : c.user = o.customer
       /\ (ret'.op = "delete_customer" /\ ret'.exc = "ProtectedError")
             => (customers' = customers /\ orders' = orders /\ carts' = carts
                 /\ cartItems' = cartItems)]_vars

\* the deletion of a customer that has an order and a cart was refused
C10_Witness ==
    /\ ret.op = "delete_customer"
    /\ ret.exc = "ProtectedError"
    /\ \E c \in customers : c.user = ret.pk
    /\ \E o \in orders : o.customer = ret.pk
    /\ \E k \in carts : k.customer = ret.pk

\* a customer without orders was deleted while another customer keeps an order
C10_WitnessDeleted ==
    /\ ret.op = "delete_customer"
    /\ ret.exc = "none"
    /\ orders # {}

\* C11: a step that deletes a product keeps every order item: an item that
\* referred to the product is still there with its product column reset to
\* None and its product_name, product_code and unit price as before, every
\* other item is as before; and no cart item refers to the product afterwards.
C11_DeleteProductKeepsOrderItems ==
    [][\A p \in products : p \notin products' =>
          /\ \A i \in orderItems :
                IF i.product = p.id
                THEN \E j \in orderItems' :
                        /\ j.id = i.id /\ j.order = i.order
                        /\ j.product = None
                        /\ j.product_name = i.product_name
                        /\ j.product_code = i.product_code
                        /\ j.unit_price = i.unit_price
                ELSE i \in orderItems'
          /\ Cardinality(orderItems') = Cardinality(orderItems)
          /\ \A ci \in cartItems' : ci.product # p.id]_vars

\* a product was deleted that a cart item and an order item referred to: the
\* cart item is gone, the order item is there without product, with the
\* name, the code and the price it was given
C11_Witness ==
    /\ nextCartItemId > 1
    /\ cartItems = {}
    /\ \E i \in orderItems :
          /\ i.product = None
          /\ i.product_name # None
          /\ i.product_code # None
          /\ i.unit_price \in Amounts
          /\ \A p \in products : p.id # i.product_name

Keys(rows) == {r.id : r \in rows}

\* every foreign key column holds None, where the column is nullable, or the
\* key of a row of the table it refers to
NoDanglingReference ==
    /\ \A r \in commodities \cup smartcards : r.product_ptr \in Keys(products)
    /\ \A r \in variants : IsSmartPhoneModel(r.product)
    /\ \A r \in carts :
          /\ IsCustomer(r.customer)
          /\ r.billing_address \in Keys(billingAddresses) \cup {None}
          /\ r.shipping_address \in Keys(shippingAddresses) \cup {None}
    /\ \A r \in cartItems : r.cart \in Keys(carts) /\ r.product \in Keys(products)
    /\ \A r \in billingAddresses \cup shippingAddresses : IsCustomer(r.customer)
    /\ \A r \in orders : IsCustomer(r.customer)
    /\ \A r \in orderItems :
          r.order \in Keys(orders) /\ r.product \in Keys(products) \cup {None}
    /\ \A r \in payments \cup deliveries : r.order \in Keys(orders)
    /\ \A r \in deliveryItems :
          r.delivery \in Keys(deliveries) /\ r.item \in Keys(orderItems)

\* the value of a nullable foreign key column once rows is what is left of
\* the table it refers to
StillThere(key, rows) == IF key \in Keys(rows) THEN key ELSE None

\* C12: after every step no foreign key refers to a missing row, and a step
\* that deletes an address, and no customer, keeps every cart: the cart is
\* there as before, but for an address column that referred to the deleted
\* address and now holds None.
C12_NoDanglingForeignKey ==
    [][/\ NoDanglingReference'
       /\ (customers' = customers
            /\ (billingAddresses' # billingAddresses
                \/ shippingAddresses' # shippingAddresses))
          => \A k \in carts : \E j \in carts' :
                /\ j.id = k.id /\ j.customer = k.customer
                /\ j.billing_address = StillThere(k.billing_address, billingAddresses')
                /\ j.shipping_address = StillThere(k.shipping_address, shippingAddresses')]_vars

\* the billing address of a cart was deleted: the cart is there with its
\* shipping address and without billing address
C12_Witness ==
    /\ nextBillingAddressId > 1
    /\ billingAddresses = {}
    /\ \E k \in carts : k.billing_address = None /\ k.shipping_address # None

\* an order that had an item, a payment and a delivery with a delivery item
\* was deleted: nothing of it is left
C12_WitnessOrder ==
    /\ nextOrderId > 1 /\ nextOrderItemId > 1 /\ nextPaymentId > 1 /\ nextDeliveryItemId > 1
    /\ customers # {}
    /\ orders = {} /\ orderItems = {} /\ payments = {} /\ deliveries = {}
    /\ deliveryItems = {}

\* a customer whose address another customer's cart used was deleted: the
\* other customer keeps the cart, without the address
C12_WitnessCustomer ==
    /\ ret.op = "delete_customer" /\ ret.exc = "none"
    /\ nextBillingAddressId > 1
    /\ \E k \in carts : k.customer # ret.pk /\ k.billing_address = None

\* C13: no two customers share a user, and no two carts share a customer.
C13_OneUserOneCart ==
    /\ \A c, d \in customers : c.user = d.user => c = d
    /\ \A k, l \in carts : k.customer = l.customer => k = l

\* a second cart was refused to a customer that has one, while there is
\* another customer
C13_Witness ==
    /\ ret.op = "create_cart"
    /\ ret.exc = "IntegrityError"
    /\ Cardinality(customers) = 2
    /\ \E k \in carts : k.customer = ret.pk

\* a second customer was refused to a user that is a customer
C13_WitnessUser ==
    /\ ret.op = "create_customer"
    /\ ret.exc = "IntegrityError"
    /\ customers # {}

\* C15: a call of deduct_from_stock(q, product_code=c) on a model leaves the
\* products, the commodities, the smart cards and every variant but the
\* model's variant with code c as they were and adds no variant; when the
\* model has no variant with code c it raises SmartPhoneModel.DoesNotExist
\* and no variant changes; else the stock of that variant is lowered by q,
\* or the call raises and no variant changes.
C15_DeductChangesOneVariant ==
    [][ret'.op = "deduct_from_stock" =>
          LET target == {v \in variants : v.product = ret'.pk /\ v.product_code = ret'.code}
          IN  /\ products' = products
              /\ commodities' = commodities
              /\ smartcards' = smartcards
              /\ \A v \in variants \ target : v \in variants'
              /\ Cardinality(variants') = Cardinality(variants)
              /\ IF target = {}
                 THEN ret'.exc = "SmartPhoneModel.DoesNotExist" /\ variants' = variants
                 ELSE IF ret'.exc = "none"
                 THEN \A v \in target :
                         [v EXCEPT !.quantity = v.quantity - ret'.quantity] \in variants'
                 ELSE variants' = variants]_vars

\* stock was deducted from one of two stocked variants of a model while a
\* commodity is in stock too
C15_Witness ==
    /\ ret.op = "deduct_from_stock"
    /\ ret.exc = "none"
    /\ commodities # {}
    /\ \E v, w \in variants :
          /\ v.product = ret.pk /\ v.product_code = ret.code
          /\ w.product = ret.pk /\ w.product_code # ret.code
          /\ v.quantity < w.quantity

\* the call named the code of a variant of another model
C15_WitnessOtherModel ==
    /\ ret.op = "deduct_from_stock"
    /\ ret.exc = "SmartPhoneModel.DoesNotExist"
    /\ \E v \in variants : v.product # ret.pk /\ v.product_code = ret.code /\ v.quantity > 0

\* C16: the stock quantity of every commodity, smart card and smart phone
\* variant is zero or more.
C16_StockNotNegative ==
    \A r \in commodities \cup smartcards \cup variants : r.quantity >= 0

\* more than the stock of a variant was asked for, and a negative stock was
\* refused: the stock is as it was
C16_Witness ==
    /\ ret.op = "deduct_from_stock"
    /\ ret.exc = "IntegrityError"
    /\ \E v \in variants :
          v.product = ret.pk /\ v.product_code = ret.code /\ v.quantity < ret.quantity

\* a commodity with a negative stock was refused
C16_WitnessCreate ==
    /\ ret.op = "create_commodity"
    /\ ret.exc = "IntegrityError"
    /\ commodities = {}

\* what the lookup of the cart item's variant raised inside the try block of
\* the last populate_from_cart_item
LookupRaised == get_product_variant(ret.cart_item.product, ret.cart_item.product_code).exc

\* C17: when the lookup of the variant raises a KeyError or an
\* ObjectDoesNotExist, populate_from_cart_item raises CartItem.DoesNotExist;
\* it never raises SmartPhoneModel.DoesNotExist, SmartPhoneVariant.DoesNotExist
\* or KeyError.
C17_LookupErrorsAreTranslated ==
    Populated =>
        /\ LookupRaised \in {"KeyError"} \cup ObjectDoesNotExist
              => ret.exc = "CartItem.DoesNotExist"
        /\ ret.exc \notin {"KeyError", "SmartPhoneModel.DoesNotExist",
                           "SmartPhoneVariant.DoesNotExist"}

\* the lookup has raised SmartPhoneModel.DoesNotExist for a cart item of a
\* model that has variants, and the caller got CartItem.DoesNotExist
C17_Witness ==
    /\ Populated
    /\ LookupRaised = "SmartPhoneModel.DoesNotExist"
    /\ ret.exc = "CartItem.DoesNotExist"
    /\ VariantsOf(ret.cart_item.product) # {}

\* C18: an order item keeps the unit price it was given: whatever a step
\* does to the variants and the products (a new price for the variant, the
\* variant deleted, the product deleted), every order item is still there
\* afterwards with the unit price it had.
C18_UnitPriceIsASnapshot ==
    [][\A i \in orderItems :
          \E j \in orderItems' : j.id = i.id /\ j.unit_price = i.unit_price]_vars

\* an order item whose variant has another price now than the item
C18_Witness ==
    \E i \in orderItems : \E v \in variants :
        /\ v.product = i.product
        /\ v.product_code = i.product_code
        /\ Decimal(v.unit_price) # i.unit_price

\* an order item with its unit price whose variant is gone while its product
\* is still there
C18_WitnessVariantDeleted ==
    \E i \in orderItems :
        /\ i.unit_price \in Amounts
        /\ \E p \in products : p.id = i.product
        /\ \A v \in variants : v.product_code # i.product_code

\* an order item with its unit price whose product is gone
C18_WitnessProductDeleted ==
    \E i \in orderItems :
        /\ i.unit_price \in Amounts
        /\ i.product = None
        /\ variants = {}

\* C19: get_availability(request, product_code=c) on a smart phone model
\* returns what the variant of that model with code c answers, raises
\* SmartPhoneModel.DoesNotExist when the model has no such variant, and
\* leaves every variant as it was.
C19_AvailabilityIsTheVariants ==
    [][ret'.op = "get_availability" =>
          /\ variants' = variants
          /\ LET found == {v \in variants : v.product = ret'.pk
                                              /\ v.product_code = ret'.code}
             IN  IF found = {}
                 THEN ret'.exc = "SmartPhoneModel.DoesNotExist"
                 ELSE /\ ret'.exc = "none"
                      /\ \A v \in found : ret'.value = variant_get_availability(v)]_vars

\* the availability of one variant was returned for a model that has another
\* variant with another stock
C19_Witness ==
    /\ ret.op = "get_availability"
    /\ ret.exc = "none"
    /\ \E v, w \in variants :
          /\ v.product = ret.pk /\ w.product = ret.pk
          /\ v.product_code = ret.code /\ w.product_code # ret.code
          /\ v.quantity # w.quantity
          /\ ret.value = variant_get_availability(v)

\* get_availability raised SmartPhoneModel.DoesNotExist for a model that has
\* variants, none of them with the code asked for
C19_WitnessMissing ==
    /\ ret.op = "get_availability"
    /\ ret.exc = "SmartPhoneModel.DoesNotExist"
    /\ \E v \in variants : v.product = ret.pk

\* the rows of the three translation tables, each with the name of its table
AllTranslations ==
    {<<"ProductTranslation", t>> : t \in productTranslations}
        \cup {<<"SmartCardTranslation", t>> : t \in smartCardTranslations}
        \cup {<<"SmartPhoneModelTranslation", t>> : t \in smartPhoneModelTranslations}

\* two rows of one table with the same language and the same master
SamePair(x, y) ==
    /\ x[1] = y[1] /\ x[2].id # y[2].id
    /\ x[2].language_code = y[2].language_code /\ x[2].master = y[2].master

\* C21 as stated: in each of the three translation tables no two rows have
\* the same pair (language_code, master).
C21_PairUnique == \A x, y \in AllTranslations : ~SamePair(x, y)

\* C21: in each of the three translation tables no two rows that have a
\* master share the pair (language_code, master), so a product has at most
\* one translation per language; rows without master may repeat a language;
\* and after a step that deletes a product no translation names it as master.
C21_OneTranslationPerLanguage ==
    [][/\ \A x, y \in AllTranslations' : SamePair(x, y) => x[2].master = None
       /\ \A p \in products : p \notin products' =>
              \A x \in AllTranslations' : x[2].master # p.id]_vars

\* a second translation of a product in a language it has one in was refused
C21_Witness ==
    /\ ret.op = "create_translation"
    /\ ret.exc = "IntegrityError"
    /\ \E x \in AllTranslations :
          /\ x[1] = ret.table
          /\ x[2].language_code = ret.language_code
          /\ x[2].master = ret.master
          /\ x[2].master # None

\* a smart card with translations was deleted, and its translations with it
C21_WitnessDeleted ==
    /\ nextSmartCardTranslationId > MaxTranslations
    /\ smartCardTranslations = {}
    /\ products = {}

\* C22 as stated: get_price on a model that has no variant returns a value
\* without amount and without currency.
C22_NoAmountNoCurrency ==
    (ret.op = "get_price" /\ VariantsOf(ret.pk) = {}) =>
        ret.value.amount = NaN /\ ret.value.currency = NoCurrency

\* C22: the first call of get_price on an instance of a model that has no
\* variant returns Money(): no amount, in the default currency of the shop.
C22_EmptyMoneyWithoutVariants ==
    (ret.op = "get_price" /\ ret.first /\ VariantsOf(ret.pk) = {}) =>
        ret.value.amount = NaN /\ ret.value.currency = SHOP_DEFAULT_CURRENCY

\* get_price has answered a first call for a model without variants, while
\* another model has a variant priced in another currency than the default
C22_Witness ==
    /\ ret.op = "get_price"
    /\ ret.first
    /\ VariantsOf(ret.pk) = {}
    /\ ret.value = Money
    /\ \E v \in variants : v.unit_price.currency # SHOP_DEFAULT_CURRENCY

\* get_price has answered a later call with the price the instance
\* remembers, for a model that has lost its variants since
C22_WitnessRemembered ==
    /\ ret.op = "get_price"
    /\ ~ret.first
    /\ VariantsOf(ret.pk) = {}
    /\ ret.value.amount \in Amounts

\* C23: the first call of get_price on an instance leaves its value on the
\* instance; no other step changes what the instance remembers; every later
\* call on the instance returns the remembered value, whatever the variants
\* are by then and whatever request is passed, and changes nothing.
C23_PriceComputedOnce ==
    [][/\ (ret'.op = "get_price" /\ ret'.first) =>
              obj'.hasPrice /\ obj'.price = ret'.value
       /\ (obj.hasPrice /\ obj'.hasPrice /\ obj'.pk = obj.pk) => obj'.price = obj.price
       /\ (ret'.op = "get_price" /\ ~ret'.first) =>
              /\ obj.hasPrice
              /\ ret'.value = obj.price
              /\ obj' = obj
              /\ variants' = variants]_vars

\* a later call has returned a price that no variant of the model has now
C23_Witness ==
    /\ ret.op = "get_price"
    /\ ~ret.first
    /\ ret.request = "customer"
    /\ ret.value.amount \in Amounts
    /\ VariantsOf(ret.pk) # {}
    /\ \A v \in VariantsOf(ret.pk) : v.unit_price.amount # ret.value.amount

\* a later call has returned the empty Money for a model that has got
\* variants since the first call
C23_WitnessAdded ==
    /\ ret.op = "get_price"
    /\ ~ret.first
    /\ ret.request = "anonymous"
    /\ ret.value = Money
    /\ VariantsOf(ret.pk) # {}

\* C24: get_price, run query by query among the writes of other requests,
\* raises nothing and returns a Money whose currency and amount are those of
\* the model's variants as they were at one moment of the call: the currency
\* of the first variant and the minimum of the unit prices, or the empty
\* Money when there was no variant.
C24_ConsistentPriceUnderWrites ==
    ret.op = "get_price_queries" =>
        /\ ret.exc = "none"
        /\ \E qs \in ret.seen :
              IF qs = {} THEN ret.value = Money
              ELSE /\ ret.value.currency = First(qs).unit_price.currency
                   /\ ret.value.amount = AggregateMin(qs)

\* the only variant of the model was deleted between exists() and first():
\* get_price raised AttributeError
C24_WitnessRaised ==
    /\ ret.op = "get_price_queries"
    /\ ret.exc = "AttributeError"
    /\ VariantsOf(ret.pk) = {}

\* get_price returned a currency and an amount that no moment of the call
\* had together
C24_WitnessMixed ==
    /\ ret.op = "get_price_queries"
    /\ ret.exc = "none"
    /\ \A qs \in ret.seen :
          qs # {} /\ (ret.value.currency # First(qs).unit_price.currency
                        \/ ret.value.amount # AggregateMin(qs))

\* the cart items a call of is_in_cart asks for
Wanted(call) ==
    {ci \in cartItems : /\ call.kwargs.given
                        /\ ci.cart = call.cart
                        /\ ci.product = call.pk
                        /\ ci.product_code = call.kwargs.product_code}

\* C25: is_in_cart(cart, product_code=c) returns an item of the given cart
\* that refers to the model and has the code c whenever there is one, and
\* None when there is none or when no product_code is given; the carts and
\* their items are as before.
C25_InCartFindsTheItem ==
    [][ret'.op = "is_in_cart" =>
          /\ IF Wanted(ret') = {} THEN ret'.item = NoCartItem
                                  ELSE ret'.item \in Wanted(ret')
          /\ cartItems' = cartItems
          /\ carts' = carts]_vars

\* is_in_cart has returned None for a cart, while another cart holds an
\* item of the model with the code
C25_Witness ==
    /\ ret.op = "is_in_cart"
    /\ ret.kwargs.given
    /\ ret.item = NoCartItem
    /\ \E ci \in cartItems :
          /\ ci.cart # ret.cart
          /\ ci.product = ret.pk
          /\ ci.product_code = ret.kwargs.product_code

\* is_in_cart has returned the item of the cart
C25_WitnessFound ==
    /\ ret.op = "is_in_cart"
    /\ ret.item \in cartItems
    /\ ret.item.product_code # None

\* is_in_cart has returned None without product_code, while the cart holds
\* an item of the model
C25_WitnessNoCode ==
    /\ ret.op = "is_in_cart"
    /\ ~ret.kwargs.given
    /\ ret.item = NoCartItem
    /\ \E ci \in cartItems : ci.cart = ret.cart /\ ci.product = ret.pk

\* C26: the unit price stored on an order item equals the unit price of the
\* variant it was populated from.
C26_StoredPriceIsExact ==
    \A i \in orderItems : \A v \in variants :
        (v.product = i.product /\ v.product_code = i.product_code)
            => i.unit_price = Decimal(v.unit_price)

\* an order item is stored with another unit price than its variant has: the
\* variant's price has a third decimal digit
C26_Witness ==
    \E i \in orderItems : \E v \in variants :
        /\ v.product = i.product /\ v.product_code = i.product_code
        /\ Decimal(v.unit_price) % Cent # 0
        /\ i.unit_price % Cent = 0
        /\ i.unit_price # Decimal(v.unit_price)

\* an order item of a variant priced in whole cents is stored with the price
\* of the variant
C26_WitnessExact ==
    \E i \in orderItems : \E v \in variants :
        /\ v.product = i.product /\ v.product_code = i.product_code
        /\ Decimal(v.unit_price) % Cent = 0
        /\ i.unit_price = Decimal(v.unit_price)

\* C27: the settings loaded with REDIS_HOST set to a non-empty value have
\* the session engine redis_sessions.session and the default cache
\* redis_cache.RedisCache on that host; the settings loaded with REDIS_HOST
\* unset or empty have the session engine cached_db and the default cache in
\* local memory; the select2 cache is the dummy cache in both cases.
C27_RedisWhenHostIsSet ==
    ret.op = "load_settings" =>
        LET host == ret.environ["REDIS_HOST"]
        IN  /\ settings.CACHES.select2.BACKEND = "django.core.cache.backends.dummy.DummyCache"
            /\ IF host # PyNone /\ host.value # ""
               THEN /\ settings.SESSION_ENGINE = "redis_sessions.session"
                    /\ settings.SESSION_REDIS = host
                    /\ settings.CACHES.default.BACKEND = "redis_cache.RedisCache"
                    /\ settings.CACHES.default.LOCATION
                           = "redis://" \o host.value \o ":6379/1"
               ELSE /\ settings.SESSION_ENGINE = "django.contrib.sessions.backends.cached_db"
                    /\ settings.CACHES.default.BACKEND
                           = "django.core.cache.backends.locmem.LocMemCache"

\* the settings were loaded with REDIS_HOST set to the empty string: no Redis
C27_Witness ==
    /\ ret.op = "load_settings"
    /\ ret.environ["REDIS_HOST"] = Str("")
    /\ settings.SESSION_ENGINE = "django.contrib.sessions.backends.cached_db"

\* the settings were loaded with REDIS_HOST naming a host: Redis on that host
C27_WitnessRedis ==
    /\ ret.op = "load_settings"
    /\ ret.environ["REDIS_HOST"] = Str("redis.example")
    /\ settings.CACHES.default.LOCATION = "redis://redis.example:6379/1"

\* C29: the settings loaded with DJANGO_EMAIL_USE_TLS unset or set to any
\* non-empty value, '0' and 'false' included, have EMAIL_USE_TLS true; the
\* settings loaded with the variable set to the empty string have it false.
C29_EmailTlsUnlessEmpty ==
    ret.op = "load_settings" =>
        (settings.EMAIL_USE_TLS <=> ret.environ["DJANGO_EMAIL_USE_TLS"] # Str(""))

\* the settings were loaded with DJANGO_EMAIL_USE_TLS=0: TLS is on
C29_Witness ==
    /\ ret.op = "load_settings"
    /\ ret.environ["DJANGO_EMAIL_USE_TLS"] = Str("0")
    /\ settings.EMAIL_USE_TLS

\* the settings were loaded with DJANGO_EMAIL_USE_TLS set to the empty
\* string: TLS is off
C29_WitnessEmpty ==
    /\ ret.op = "load_settings"
    /\ ret.environ["DJANGO_EMAIL_USE_TLS"] = Str("")
    /\ ~settings.EMAIL_USE_TLS

\* the settings were loaded with DJANGO_EMAIL_USE_TLS unset: TLS is on
C29_WitnessUnset ==
    /\ ret.op = "load_settings"
    /\ ret.environ["DJANGO_EMAIL_USE_TLS"] = PyNone
    /\ settings.EMAIL_USE_TLS

\* the unit_price column of the row a call of get_price was made on
UnitPriceOf(call) ==
    IF call.model = "Commodity"
    THEN {r.unit_price : r \in {x \in commodities : x.product_ptr = call.pk}}
    ELSE IF call.model = "SmartCard"
    THEN {r.unit_price : r \in {x \in smartcards : x.product_ptr = call.pk}}
    ELSE {r.unit_price : r \in {x \in variants : x.id = call.pk}}

\* C28: get_price of a commodity, a smart card or a smart phone variant
\* returns the unit_price of that row whatever the request is, and leaves the
\* catalog as it was; a call that follows a call on the same object with
\* another request returns the same value.
C28_UnitPriceForEveryRequest ==
    [][ret'.op = "unit_price" =>
          /\ UnitPriceOf(ret') = {ret'.value}
          /\ UNCHANGED <<catalogVars, shopVars>>
          /\ (/\ ret.op = "unit_price" /\ ret.model = ret'.model /\ ret.pk = ret'.pk
              /\ ret.request # ret'.request) => ret'.value = ret.value]_vars

\* get_price was called for a commodity on behalf of a customer right after
\* an anonymous call, while a smart card has another price
C28_Witness ==
    /\ ret.op = "unit_price"
    /\ ret.model = "Commodity"
    /\ ret.request = "customer"
    /\ \E r \in commodities : r.product_ptr = ret.pk /\ r.unit_price = ret.value
    /\ \E r \in smartcards : r.unit_price # ret.value

\* get_price was called for a variant priced in another currency than the
\* default, while another variant has another price
C28_WitnessVariant ==
    /\ ret.op = "unit_price"
    /\ ret.model = "SmartPhoneVariant"
    /\ ret.value.currency # SHOP_DEFAULT_CURRENCY
    /\ \E v \in variants : v.id # ret.pk /\ v.unit_price # ret.value

\* get_price was called for a smart card
C28_WitnessSmartCard ==
    /\ ret.op = "unit_price"
    /\ ret.model = "SmartCard"
    /\ ret.request = "anonymous"
    /\ \E r \in smartcards : r.product_ptr = ret.pk /\ r.unit_price = ret.value

====
